---------------------------- MODULE Spec2Model ----------------------------
(***************************************************************************)
(* Heliotrope: the orientation fusion and calibration pipeline of          *)
(* src/App.tsx, the angle helpers of src/ahrs-orientation.ts and the solar *)
(* table of src/solar.ts.                                                  *)
(*                                                                         *)
(* JavaScript numbers.  Every number of the program is an IEEE-754 double. *)
(* A number is modelled as a record                                        *)
(*     [k |-> kind, v |-> Int, e |-> Int, nz |-> BOOLEAN]                  *)
(* k = "nan" is NaN, k = "inf" is +Infinity (v = 1) or -Infinity (v = -1), *)
(* k = "fin" is the finite value  (v + e * eps) / Scale  where eps stands  *)
(* for a magnitude far below the spacing of the doubles next to 360 (ulp,  *)
(* 2^-44): UlpUnits * eps = ulp.  Beside zero every multiple of eps is a   *)
(* double; beside a non-zero grid value only the whole multiples of ulp    *)
(* are, so a sum there is rounded to the nearest of them, as               *)
(* round-to-nearest does: a magnitude below ulp/2 (such as 1e-20 beside    *)
(* 360) is rounded away, and just below 360 lies 360 - ulp.  v # 0 implies *)
(* that e is a multiple of UlpUnits.  nz marks the negative zero (v = 0,   *)
(* e = 0).  Grid arithmetic is exact: the grid is fine enough              *)
(* (Scale = 5^GridSteps) for GridSteps smoothing steps in a row.  The      *)
(* products of smoothValue are taken exactly; where their rounding (a few  *)
(* ulp) matters, the caller adds it (Rounded).                             *)
(***************************************************************************)
EXTENDS Integers, Sequences, FiniteSets, TLC

\* How many smoothing steps one orientation of the pipeline goes through.
MaxSmooth == 2

\* How many smoothing steps in a row stay exact on the grid.
GridSteps == 4

\* Grid units per degree.
Scale == 5 ^ GridSteps

\* eps per ulp
UlpUnits == 1000 * Scale

\* e, in eps, rounded to the nearest whole number of ulp (a tie to the even one)
RoundUlp(e) ==
    LET down == (e \div UlpUnits) * UlpUnits
        rest == e - down
    IN  IF 2 * rest < UlpUnits THEN down
        ELSE IF 2 * rest > UlpUnits THEN down + UlpUnits
        ELSE IF (e \div UlpUnits) % 2 = 0 THEN down ELSE down + UlpUnits

Null == [k |-> "null"]

NaN == [k |-> "nan", v |-> 0, e |-> 0, nz |-> FALSE]
PosInf == [k |-> "inf", v |-> 1, e |-> 0, nz |-> FALSE]
NegInf == [k |-> "inf", v |-> -1, e |-> 0, nz |-> FALSE]

\* The double nearest to the real number (v + e*eps)/Scale; sign ng of a zero.
Round(v, e, ng) ==
    [k |-> "fin", v |-> v, e |-> IF v # 0 THEN RoundUlp(e) ELSE e,
     nz |-> (v = 0 /\ e = 0 /\ ng)]

\* d degrees, a whole number.
Deg(d) == Round(d * Scale, 0, FALSE)

\* d * eps degrees: non-zero, below half an ulp of every non-zero grid value.
Tiny(d) == Round(0, d * Scale, FALSE)

\* d degrees and u ulp
DegUlp(d, u) == Round(d * Scale, u * UlpUnits, FALSE)

NegZero == Round(0, 0, TRUE)

\* Number.isFinite
IsFinite(x) == x.k = "fin"

IsZero(x) == x.v = 0 /\ x.e = 0

\* x < 0 as a real number (false for both zeros)
IsNegative(x) == x.v < 0 \/ (x.v = 0 /\ x.e < 0)

\* the sign bit of the double
SignBit(x) == IsNegative(x) \/ x.nz

\* a < b, a > b, a === b on finite doubles (the zeros compare equal)
Lt(a, b) == a.v < b.v \/ (a.v = b.v /\ a.e < b.e)

Gt(a, b) == Lt(b, a)

Eq(a, b) == a.v = b.v /\ a.e = b.e

Neg(a) == Round(-a.v, -a.e, ~SignBit(a))

\* a + b, rounded to nearest: a sum of zeros is -0 only if both are.
Add(a, b) == Round(a.v + b.v, a.e + b.e, a.nz /\ b.nz)

Sub(a, b) == Add(a, Neg(b))

\* a * (n/d) for a rational n/d >= 0; the grid keeps the quotient exact.
Mul(a, n, d) == Round((a.v * n) \div d, (a.e * n) \div d, SignBit(a))

\* Math.abs
Abs(a) == IF SignBit(a) THEN Neg(a) ELSE a

\* the magnitude |n| mod m of an integer, for the truncated remainder
TruncRem(n, m) == IF n >= 0 THEN n % m ELSE -((-n) % m)

\* a % d for whole degrees d > 0: JavaScript's remainder takes the sign of
\* the dividend, so a negative multiple of d gives -0, and a value below d
\* in magnitude is returned as it is.
Rem(a, d) ==
    LET m == d * Scale
        \* a multiple of d less or plus some ulp is one period short of it
        short == TruncRem(a.v, m) = 0 /\ ((a.v > 0 /\ a.e < 0) \/ (a.v < 0 /\ a.e > 0))
    IN  IF a.v = 0 THEN a
        ELSE IF short THEN Round(IF a.v > 0 THEN m ELSE -m, a.e, FALSE)
        ELSE Round(TruncRem(a.v, m), a.e, a.v < 0)

\* Math.floor, in whole degrees (an integer): floor of a tiny negative is -1
Floor(a) ==
    LET whole == IF a.v >= 0 THEN a.v \div Scale
                 ELSE -((-a.v + Scale - 1) \div Scale)
    IN  IF a.v = 0 THEN (IF a.e < 0 THEN -1 ELSE 0)
        ELSE IF whole * Scale = a.v /\ a.e < 0 THEN whole - 1
        ELSE whole

\* a < b on any two doubles: false if one is NaN
Below(a, b) ==
    IF a.k = "nan" \/ b.k = "nan" THEN FALSE
    ELSE IF a.k = "inf" THEN a.v < 0 /\ ~(b.k = "inf" /\ b.v < 0)
    ELSE IF b.k = "inf" THEN b.v > 0
    ELSE Lt(a, b)

\* Math.max, Math.min: NaN if an argument is NaN
Max(a, b) ==
    IF a.k = "nan" \/ b.k = "nan" THEN NaN ELSE IF Below(a, b) THEN b ELSE a

Min(a, b) ==
    IF a.k = "nan" \/ b.k = "nan" THEN NaN ELSE IF Below(b, a) THEN b ELSE a

(***************************************************************************)
(* Gains and their strings.  The gains of src/beta-storage.ts are short    *)
(* decimals, off the grid of the angles, and what matters of them is how   *)
(* they are written and read back.  A gain is a record                     *)
(*     [k |-> kind, neg |-> BOOLEAN, m |-> Nat, x |-> Int]                 *)
(* k = "fin" is the double nearest to (-1)^neg * m * 10^x, with m not a    *)
(* multiple of 10 (zero is m = 0, x = 0); k = "nan" and k = "inf" as       *)
(* above.  Decimals of up to four significant digits are distinct doubles  *)
(* and compare as the decimals do.  A string is a record holding its       *)
(* characters, one-character strings in a sequence.                        *)
(***************************************************************************)

NotANumber == [k |-> "nan", neg |-> FALSE, m |-> 0, x |-> 0]

Infinity(neg) == [k |-> "inf", neg |-> neg, m |-> 0, x |-> 0]

RECURSIVE Decimal(_, _, _)
\* (-1)^neg * m * 10^x
Decimal(neg, m, x) ==
    IF m = 0 THEN [k |-> "fin", neg |-> neg, m |-> 0, x |-> 0]
    ELSE IF m % 10 = 0 THEN Decimal(neg, m \div 10, x + 1)
    ELSE [k |-> "fin", neg |-> neg, m |-> m, x |-> x]

RECURSIVE NumDigits(_)
\* how many decimal digits m > 0 has
NumDigits(m) == IF m < 10 THEN 1 ELSE 1 + NumDigits(m \div 10)

RECURSIVE Pow10(_)
Pow10(n) == IF n = 0 THEN 1 ELSE 10 * Pow10(n - 1)

\* |a| < |b| on finite gains
MagLt(a, b) ==
    LET la == NumDigits(a.m)
        lb == NumDigits(b.m)
    IN  IF b.m = 0 THEN FALSE
        ELSE IF a.m = 0 THEN TRUE
        ELSE IF la + a.x # lb + b.x THEN la + a.x < lb + b.x
        ELSE IF la >= lb THEN a.m < b.m * Pow10(la - lb)
        ELSE a.m * Pow10(lb - la) < b.m

\* a < b on finite gains (the zeros compare equal)
DecLt(a, b) ==
    IF a.neg = b.neg THEN (IF a.neg THEN MagLt(b, a) ELSE MagLt(a, b))
    ELSE a.neg /\ (a.m # 0 \/ b.m # 0)

\* Math.max(a, b), Math.min(a, b) on finite gains
DecMax(a, b) == IF DecLt(a, b) THEN b ELSE a

DecMin(a, b) == IF DecLt(b, a) THEN b ELSE a

\* The double a decimal literal of up to four digits denotes: from
\* 1.798e308 on it is an infinity, up to 2.470e-324 it is a zero.
ToDouble(d) ==
    IF ~MagLt(d, Decimal(FALSE, 1798, 305)) THEN Infinity(d.neg)
    ELSE IF MagLt(d, Decimal(FALSE, 2471, -327)) THEN Decimal(d.neg, 0, 0)
    ELSE d

Str(chars) == [k |-> "string", chars |-> chars]

WhiteSpace == {" ", "\t", "\n"}

DigitChars == <<"0", "1", "2", "3", "4", "5", "6", "7", "8", "9">>

IsDigit(c) == \E i \in 1 .. Len(DigitChars) : DigitChars[i] = c

DigitValue(c) == (CHOOSE i \in 1 .. Len(DigitChars) : DigitChars[i] = c) - 1

RECURSIVE TrimStart(_)
\* the characters from the first one on that is not white space
TrimStart(chars) ==
    IF chars # <<>> /\ Head(chars) \in WhiteSpace THEN TrimStart(Tail(chars))
    ELSE chars

RECURSIVE DigitRun(_)
\* how many digits the characters begin with
DigitRun(chars) ==
    IF chars # <<>> /\ IsDigit(Head(chars)) THEN 1 + DigitRun(Tail(chars)) ELSE 0

RECURSIVE DigitsValue(_)
\* the number a sequence of digits writes
DigitsValue(digits) ==
    IF digits = <<>> THEN 0
    ELSE 10 * DigitsValue(SubSeq(digits, 1, Len(digits) - 1))
         + DigitValue(digits[Len(digits)])

RECURSIVE DigitsOf(_)
\* the digits that write m > 0
DigitsOf(m) ==
    IF m < 10 THEN <<DigitChars[m + 1]>>
    ELSE Append(DigitsOf(m \div 10), DigitChars[(m % 10) + 1])

Zeros(n) == [i \in 1 .. n |-> "0"]

HasPrefix(chars, prefix) ==
    Len(chars) >= Len(prefix) /\ SubSeq(chars, 1, Len(prefix)) = prefix

InfinityWord == <<"I", "n", "f", "i", "n", "i", "t", "y">>

\* parseFloat(string): white space is skipped, then the longest prefix that
\* is a decimal literal is read (a sign, Infinity or digits with a point,
\* an exponent if it has digits); NaN if there is none.
parseFloat(string) ==
    LET trimmed == TrimStart(string.chars)
        signed == trimmed # <<>> /\ Head(trimmed) \in {"+", "-"}
        neg == signed /\ Head(trimmed) = "-"
        body == IF signed THEN Tail(trimmed) ELSE trimmed
        ni == DigitRun(body)
        afterInt == SubSeq(body, ni + 1, Len(body))
        point == afterInt # <<>> /\ Head(afterInt) = "."
        nf == IF point THEN DigitRun(Tail(afterInt)) ELSE 0
        fraction == IF point THEN SubSeq(afterInt, 2, nf + 1) ELSE <<>>
        afterFraction == IF point THEN SubSeq(afterInt, nf + 2, Len(afterInt))
                         ELSE afterInt
        marked == afterFraction # <<>> /\ Head(afterFraction) \in {"e", "E"}
        afterMark == IF marked THEN Tail(afterFraction) ELSE <<>>
        expSigned == afterMark # <<>> /\ Head(afterMark) \in {"+", "-"}
        expBody == IF expSigned THEN Tail(afterMark) ELSE afterMark
        ne == DigitRun(expBody)
        exponent == IF expSigned /\ Head(afterMark) = "-"
                    THEN -DigitsValue(SubSeq(expBody, 1, ne))
                    ELSE DigitsValue(SubSeq(expBody, 1, ne))
    IN  IF HasPrefix(body, InfinityWord) THEN Infinity(neg)
        ELSE IF ni + nf = 0 THEN NotANumber
        ELSE ToDouble(Decimal(neg, DigitsValue(SubSeq(body, 1, ni) \o fraction),
                              exponent - nf))

\* Number.prototype.toString: the shortest decimal that reads back as the
\* double, plain for 1e-7 <= |d| < 1e21 and with an exponent otherwise.
toString(d) ==
    LET digits == DigitsOf(d.m)
        k == Len(digits)
        n == k + d.x
        sign == IF d.neg THEN <<"-">> ELSE <<>>
        plain == IF k <= n THEN digits \o Zeros(n - k)
                 ELSE IF 0 < n THEN SubSeq(digits, 1, n) \o <<".">> \o SubSeq(digits, n + 1, k)
                 ELSE <<"0", ".">> \o Zeros(-n) \o digits
        mantissa == IF k = 1 THEN digits
                    ELSE <<digits[1], ".">> \o SubSeq(digits, 2, k)
        power == <<"e", IF n - 1 < 0 THEN "-" ELSE "+">>
                 \o DigitsOf(IF n - 1 < 0 THEN 1 - n ELSE n - 1)
    IN  Str(IF d.k = "nan" THEN <<"N", "a", "N">>
            ELSE IF d.k = "inf" THEN sign \o InfinityWord
            ELSE IF d.m = 0 THEN <<"0">>
            ELSE IF -6 < n /\ n <= 21 THEN sign \o plain
            ELSE sign \o mantissa \o power)

(***************************************************************************)
(* src/ahrs-orientation.ts                                                 *)
(***************************************************************************)

\* A smoothing factor n/d in [0,1]
Smoothing(n, d) == [n |-> n, d |-> d]

\* Variant: the two weights are swapped.
smoothValue_WeightsSwapped(prior, next, smoothing) ==
    LET n1 == IF Gt(next, Add(prior, Deg(180))) THEN Sub(next, Deg(360)) ELSE next
        n2 == IF Lt(n1, Sub(prior, Deg(180))) THEN Add(n1, Deg(360)) ELSE n1
    IN  Add(Mul(prior, smoothing.d - smoothing.n, smoothing.d),
            Mul(n2, smoothing.n, smoothing.d))

\* Variant: only the wraparound from below is handled.
smoothValue_OneWay(prior, next, smoothing) ==
    LET n1 == IF Gt(next, Add(prior, Deg(180))) THEN Sub(next, Deg(360)) ELSE next
    IN  Add(Mul(prior, smoothing.n, smoothing.d),
            Mul(n1, smoothing.d - smoothing.n, smoothing.d))

\* Where the rounding of prior * 0.2 + next * 0.8 is carried: for these whole
\* numbers n (among others) the doubles give n * 0.2 + n * 0.8 = n + ulp(n),
\* as 3 * 0.2 + 3 * 0.8 = 3.0000000000000004, and the same from n + ulp(n).
RoundsUp == {3, 6, 7}

SumRoundsUp(prior, next, smoothing) ==
    /\ smoothing = Smoothing(1, 5)
    /\ \E n \in RoundsUp : next = Deg(n) /\ prior \in {Deg(n), DegUlp(n, 1)}

\* Variant: next is taken on the turn nearest to prior, however far out.
smoothValue_NearestTurn(prior, next, smoothing) ==
    LET turns == (prior.v - next.v + 180 * Scale) \div (360 * Scale)
        n2 == Add(next, Deg(360 * turns))
    IN  Add(Mul(prior, smoothing.n, smoothing.d),
            Mul(n2, smoothing.d - smoothing.n, smoothing.d))

smoothValue(prior, next, smoothing) ==
    LET n1 == IF Gt(next, Add(prior, Deg(180))) THEN Sub(next, Deg(360)) ELSE next
        n2 == IF Lt(n1, Sub(prior, Deg(180))) THEN Add(n1, Deg(360)) ELSE n1
    IN  IF SumRoundsUp(prior, n2, smoothing)
        THEN Add(n2, DegUlp(0, 1))
        ELSE Add(Mul(prior, smoothing.n, smoothing.d),
                 Mul(n2, smoothing.d - smoothing.n, smoothing.d))

normalizeHeading(heading) ==
    LET h1 == Rem(heading, 360)
        h2 == IF Lt(h1, Deg(0)) THEN Add(h1, Deg(360)) ELSE h1
    IN  IF Eq(h2, Deg(0)) THEN Deg(0) ELSE h2

applyDeclination(magneticHeading, declination) ==
    normalizeHeading(Add(magneticHeading, declination))

\* Variant: only the upper end is clamped.
clampPitch_UpperOnly(pitch) == Min(Deg(90), pitch)

clampPitch(pitch) == Max(Deg(-90), Min(Deg(90), pitch))

\* Variant: prior and next change places.
smoothOrientation_ArgsSwapped(prior, next, smoothing) ==
    [heading |-> normalizeHeading(smoothValue(next.heading, prior.heading, smoothing)),
     pitch |-> clampPitch(smoothValue(next.pitch, prior.pitch, smoothing)),
     roll |-> smoothValue(next.roll, prior.roll, smoothing)]

smoothOrientation(prior, next, smoothing) ==
    [heading |-> normalizeHeading(smoothValue(prior.heading, next.heading, smoothing)),
     pitch |-> clampPitch(smoothValue(prior.pitch, next.pitch, smoothing)),
     roll |-> smoothValue(prior.roll, next.roll, smoothing)]

\* Variant: the magnetometer is not waited for.
hasAllSensorReadings_NoMag(gyro, accel, mag) ==
    gyro # Null /\ accel # Null

hasAllSensorReadings(gyro, accel, mag) ==
    gyro # Null /\ accel # Null /\ mag # Null

\* Variant: the z component is not looked at.
isValidSensorReading_NoZ(reading) ==
    IF reading = Null THEN FALSE
    ELSE IsFinite(reading.x) /\ IsFinite(reading.y)

isValidSensorReading(reading) ==
    IF reading = Null THEN FALSE
    ELSE IsFinite(reading.x) /\ IsFinite(reading.y) /\ IsFinite(reading.z)


\* while (offset > 180) offset -= 360; while (offset < -180) offset += 360;
\* the two loops of performCalibration and of headingDifference
RECURSIVE WrapDown(_)
WrapDown(x) == IF Gt(x, Deg(180)) THEN WrapDown(Sub(x, Deg(360))) ELSE x

RECURSIVE WrapUp(_)
WrapUp(x) == IF Lt(x, Deg(-180)) THEN WrapUp(Add(x, Deg(360))) ELSE x

\* Variant: the second loop is missing.
headingDifference_NoWrapUp(heading1, heading2) ==
    WrapDown(Sub(heading2, heading1))

\* Variant: the operands of the subtraction are swapped.
headingDifference_Swapped(heading1, heading2) ==
    WrapUp(WrapDown(Sub(heading1, heading2)))

headingDifference(heading1, heading2) == WrapUp(WrapDown(Sub(heading2, heading1)))

(***************************************************************************)
(* src/solar.ts.  sector.at(when) of the sun-sector library is an input:   *)
(* a sun track gives, for each sampled minute, the azimuth in quarter      *)
(* degrees and the elevation in half degrees.                              *)
(***************************************************************************)

\* const table = Array(360).fill(null)
TABLE_SLOTS == 360

\* the loop bound 24 * 60
MINUTES_PER_DAY == 1440

\* Math.floor of q quarter degrees
FloorQuarter(q) == IF q >= 0 THEN q \div 4 ELSE -((-q + 3) \div 4)

\* Math.round of h half degrees (halves round towards +Infinity)
RoundHalf(h) == IF h >= 0 THEN (h + 1) \div 2 ELSE -((-h) \div 2)

\* A JavaScript array: its length and its own properties.  DOMAIN at holds
\* the property names that are set; an index below length that is not set
\* is a hole and reads as undefined, like every absent property.
Undefined == [k |-> "undefined"]

ArrayFill(n, x) == [length |-> n, at |-> [i \in 0 .. (n - 1) |-> x]]

\* table[i] = x: an index at or past length grows the array; a negative
\* name is an ordinary property and leaves length alone.
ArraySet(t, i, x) ==
    [length |-> IF i >= t.length THEN i + 1 ELSE t.length,
     at |-> IF i \in DOMAIN t.at THEN [t.at EXCEPT ![i] = x] ELSE (i :> x) @@ t.at]

\* table[i]
ArrayGet(t, i) == IF i \in DOMAIN t.at THEN t.at[i] ELSE Undefined

\* The sun tracks the model draws from: name -> minute -> [azimuth, elevation]
SunAt(track, minutes) ==
    CASE track = "full" ->
           \* the azimuth sweeps the whole circle once a day
           [azimuth |-> minutes, elevation |-> 120 - (minutes \div 8)]
      [] track = "arc" ->
           \* the sun stays within bearings 60..299 and turns back at noon
           [azimuth |-> IF minutes < 720 THEN 240 + minutes ELSE 240 + 1439 - minutes,
            elevation |-> (minutes \div 12) - 50]
      [] track = "north" ->
           \* an azimuth reported on (0, 360]
           [azimuth |-> minutes + 4, elevation |-> 45]
      [] OTHER ->
           \* an azimuth reported on [-180, 180)
           [azimuth |-> minutes - 720, elevation |-> 45]

SunTracks == {"full", "arc", "north", "signed"}

\* Variant: a bucket that is already set is left as it is.
SolarStep_FirstWins(table, track, start, minutes) ==
    LET when == start + minutes * 60000
        sun == SunAt(track, minutes)
        azimuth == FloorQuarter(sun.azimuth)
    IN  IF ArrayGet(table, azimuth) \in {Null, Undefined}
        THEN ArraySet(table, azimuth,
                      [time |-> when, elevation |-> RoundHalf(sun.elevation)])
        ELSE table

\* the body of the for loop, for one minute
SolarStep(table, track, start, minutes) ==
    LET when == start + minutes * 60000
        sun == SunAt(track, minutes)
        azimuth == FloorQuarter(sun.azimuth)
    IN  ArraySet(table, azimuth, [time |-> when, elevation |-> RoundHalf(sun.elevation)])

\* for (let minutes = from; minutes < to; minutes += 1) { ... }, the minutes
\* taken in order.  The range is halved and the first half is evaluated
\* before the second is entered (the length test is always true) only to
\* keep the evaluation shallow.
RECURSIVE SolarLoop(_, _, _, _, _)
SolarLoop(table, track, start, from, to) ==
    IF to <= from THEN table
    ELSE IF to = from + 1 THEN SolarStep(table, track, start, from)
    ELSE LET mid == (from + to) \div 2
             first == SolarLoop(table, track, start, from, mid)
         IN  IF first.length >= 0
             THEN SolarLoop(first, track, start, mid, to)
             ELSE first

generateSolarTable(track, start) ==
    SolarLoop(ArrayFill(TABLE_SLOTS, Null), track, start, 0, MINUTES_PER_DAY)


(***************************************************************************)
(* src/App.tsx: the state of the App component.  Refs and React state keep *)
(* their names; now is Date.now(), calibrationCalls and betaCalls hold the *)
(* async calls suspended at their await, crashed is set by a render that   *)
(* threw.                                                                  *)
(***************************************************************************)
VARIABLES
    subscribed,              \* the three sensor listeners are registered
    gyroData, accelData, magData,
    madgwick,                \* madgwickRef: the filter object
    ahrsFailureCount,
    ahrsBeta,                \* ahrsBetaRef
    headingOffset, lastCalibrationTime, calibrationInProgress, isCalibrated,
    priorOrientation, orientation, solarPosition, solarTable,
    calibrationCalls,        \* performCalibration calls awaiting getHeadingAsync
    betaCalls,               \* handleBetaChange calls awaiting saveBeta
    storage,                 \* AsyncStorage: the item under BETA_STORAGE_KEY
    betaLoad,                \* the mount-time loadBeta: not begun, awaiting, done
    now,
    crashed,
    smoothed,                \* smoothing steps taken (bounds the grid)
    ev,                      \* history: how the last handler of the pipeline ended
    failRun,                 \* history: non-finite filter outputs in a row
    call                     \* the pure function applied last, with arguments and result

vars == <<subscribed, gyroData, accelData, magData, madgwick, ahrsFailureCount,
          ahrsBeta, headingOffset, lastCalibrationTime, calibrationInProgress,
          isCalibrated, priorOrientation, orientation, solarPosition, solarTable,
          calibrationCalls, betaCalls, storage, betaLoad, now, crashed, smoothed, ev, failRun,
          call>>

AHRS_SAMPLE_INTERVAL == 20
CALIBRATION_INTERVAL_MS == 30000
CALIBRATION_PITCH_THRESHOLD == 15
MAX_AHRS_FAILURES == 10
\* DEFAULT_BETA = 0.1, in hundredths
DEFAULT_BETA == 10

\* Variant: the filter is built with the default gain, whatever is asked for.
NewMadgwick_DefaultGain(beta) ==
    [sampleInterval |-> AHRS_SAMPLE_INTERVAL, beta |-> DEFAULT_BETA, q |-> 0]

\* new Madgwick({sampleInterval, beta}): a filter in its initial state.  Of
\* the quaternion the model keeps q: 0 for the initial one, afterwards 1 or 2
\* as the number of updates applied is odd or even.
NewMadgwick(beta) ==
    [sampleInterval |-> AHRS_SAMPLE_INTERVAL, beta |-> beta, q |-> 0]

\* madgwick.update(...): one step of the filter
MadgwickUpdate(f) == [f EXCEPT !.q = IF f.q = 1 THEN 2 ELSE 1]

\* k * pi/36 radians, and x * (180 / Math.PI)
Rad(k) == Round(k * Scale, 0, FALSE)

TinyRad(k) == Round(0, k * Scale, FALSE)

ToDegrees(x) == IF IsFinite(x) THEN Mul(x, 180, 36) ELSE x

\* Clock: Date.now() moves in steps of TickMs, MaxTicks times.
TickMs == 15 * 1000

MaxTicks == 3

\* Variant: past the first reading the interval alone decides.
ShouldCalibrate_NoLevelCheck(pitch) ==
    lastCalibrationTime = 0 \/ now - lastCalibrationTime >= CALIBRATION_INTERVAL_MS

\* The calibration step of updateOrientationAHRS (App.tsx 386-394) followed
\* by the synchronous part of performCalibration (282-286): whether a new
\* attempt starts in this cycle.
ShouldCalibrate(pitch) ==
    LET isFirstReading == lastCalibrationTime = 0
        timeSinceCalibration == now - lastCalibrationTime
        isLevel == Lt(Abs(pitch), Deg(CALIBRATION_PITCH_THRESHOLD))
        intervalElapsed == timeSinceCalibration >= CALIBRATION_INTERVAL_MS
    IN  isFirstReading \/ (isLevel /\ intervalElapsed)

\* Variant: an attempt starts whether or not one is in flight.
performCalibrationStart_NoGuard(ahrsHeading, pitch) ==
    /\ calibrationInProgress' = TRUE
    /\ calibrationCalls' = Append(calibrationCalls,
                                  [ahrsHeading |-> ahrsHeading, pitch |-> pitch])

\* performCalibration(ahrsHeading, pitch) up to its await
performCalibrationStart(ahrsHeading, pitch) ==
    IF calibrationInProgress
    THEN UNCHANGED <<calibrationInProgress, calibrationCalls>>
    ELSE /\ calibrationInProgress' = TRUE
         /\ calibrationCalls' = Append(calibrationCalls,
                                       [ahrsHeading |-> ahrsHeading, pitch |-> pitch])

\* setSolarPosition(solarTable[Math.floor(heading) % 360])
SolarLookup(table, heading) == ArrayGet(table, TruncRem(Floor(heading), 360))

\* Variant: a cycle that starts an attempt already applies the offset the
\* attempt will find for a reference of 190.
NewOrientation_OffsetAtOnce(heading, pitch, roll) ==
    LET offset == IF ShouldCalibrate(pitch) /\ ~calibrationInProgress
                  THEN Sub(Deg(190), heading) ELSE headingOffset
        next == [heading |-> applyDeclination(heading, offset),
                 pitch |-> pitch, roll |-> roll]
    IN  IF priorOrientation = Null THEN next
        ELSE smoothOrientation(priorOrientation, next, Smoothing(1, 5))

\* Variant: the new orientation is never smoothed against the prior one.
NewOrientation_Unsmoothed(heading, pitch, roll) ==
    [heading |-> applyDeclination(heading, headingOffset), pitch |-> pitch,
     roll |-> roll]

NewOrientation(heading, pitch, roll) ==
    LET next == [heading |-> applyDeclination(heading, headingOffset),
                 pitch |-> pitch, roll |-> roll]
    IN  IF priorOrientation # Null
        THEN smoothOrientation(priorOrientation, next, Smoothing(1, 5))
        ELSE next

\* Variant: only the gyroscope reading is validated.
InvalidSensorReading_GyroOnly(gyro, accel, mag) ==
    ~isValidSensorReading(gyro)

\* if (!isValidSensorReading(gyro) || !isValidSensorReading(accel) ||
\*     !isValidSensorReading(mag))
InvalidSensorReading(gyro, accel, mag) ==
    ~isValidSensorReading(gyro) \/ ~isValidSensorReading(accel)
        \/ ~isValidSensorReading(mag)

\* Variant: the threshold must be exceeded, not reached.
FailureThresholdReached_Strict(count) == count > MAX_AHRS_FAILURES

\* if (ahrsFailureCountRef.current >= MAX_AHRS_FAILURES)
FailureThresholdReached(count) == count >= MAX_AHRS_FAILURES

\* Variant: only the heading is validated.
InvalidEulerAngles_HeadingOnly(euler) == ~IsFinite(euler.heading)

\* if (!Number.isFinite(euler.heading) || !Number.isFinite(euler.pitch) ||
\*     !Number.isFinite(euler.roll))
InvalidEulerAngles(euler) ==
    ~IsFinite(euler.heading) \/ ~IsFinite(euler.pitch) \/ ~IsFinite(euler.roll)

\* updateOrientationAHRS, run by a listener after it stored its reading;
\* euler is what madgwick.getEulerAngles() returns if the filter is updated.
\* failRun counts the filter outputs as they come, whatever the code does
\* with them: it restarts when the filter object is replaced.
updateOrientationAHRS(euler) ==
    LET gyro == gyroData'
        accel == accelData'
        mag == magData'
        frame == UNCHANGED <<madgwick, ahrsFailureCount, headingOffset,
                             lastCalibrationTime, calibrationInProgress,
                             isCalibrated, priorOrientation, orientation,
                             solarPosition, calibrationCalls, smoothed, failRun>>
    IN  IF ~hasAllSensorReadings(gyro, accel, mag) \/ madgwick = Null
        THEN frame /\ ev' = "waiting"
        ELSE IF InvalidSensorReading(gyro, accel, mag)
        THEN frame /\ ev' = "skipped"
        ELSE IF InvalidEulerAngles(euler)
        THEN /\ IF FailureThresholdReached(ahrsFailureCount + 1)
                THEN /\ madgwick' = NewMadgwick(ahrsBeta)
                     /\ ahrsFailureCount' = 0
                     /\ ev' = "reset"
                     /\ failRun' = 0
                ELSE /\ madgwick' = MadgwickUpdate(madgwick)
                     /\ ahrsFailureCount' = ahrsFailureCount + 1
                     /\ ev' = "failed"
                     /\ failRun' = IF failRun < MAX_AHRS_FAILURES
                                   THEN failRun + 1 ELSE failRun
             /\ UNCHANGED <<headingOffset, lastCalibrationTime,
                            calibrationInProgress, isCalibrated, priorOrientation,
                            orientation, solarPosition, calibrationCalls, smoothed>>
        ELSE LET heading == ToDegrees(euler.heading)
                 pitch == ToDegrees(euler.pitch)
                 roll == ToDegrees(euler.roll)
                 newOrientation == NewOrientation(heading, pitch, roll)
             IN  /\ priorOrientation # Null => smoothed < MaxSmooth
                 /\ madgwick' = MadgwickUpdate(madgwick)
                 /\ ahrsFailureCount' = 0
                 /\ failRun' = 0
                 /\ IF ShouldCalibrate(pitch)
                    THEN performCalibrationStart(heading, pitch)
                    ELSE UNCHANGED <<calibrationInProgress, calibrationCalls>>
                 /\ priorOrientation' = newOrientation
                 /\ orientation' = newOrientation
                 /\ smoothed' = IF priorOrientation # Null THEN smoothed + 1 ELSE smoothed
                 /\ solarPosition' = IF solarTable # Null
                                     THEN SolarLookup(solarTable, newOrientation.heading)
                                     ELSE solarPosition
                 /\ ev' = "updated"
                 /\ UNCHANGED <<headingOffset, lastCalibrationTime, isCalibrated>>

(***************************************************************************)
(* Inputs: what the sensors, the filter, the compass and the user supply.  *)
(***************************************************************************)
Reading(x, y, z) == [x |-> x, y |-> y, z |-> z]

GoodReading == Reading(Deg(0), Deg(0), Deg(1))

GyroReadings == {GoodReading, Reading(NaN, Deg(0), Deg(0))}

AccelReadings == {GoodReading, Reading(Deg(0), PosInf, Deg(1))}

MagReadings == {GoodReading, Reading(Deg(30), Deg(0), NegInf)}

Euler(heading, pitch, roll) == [heading |-> heading, pitch |-> pitch, roll |-> roll]

\* level at 10 degrees; pitched 60 degrees up at -10 degrees; a heading just
\* below zero with a pitch of 100 degrees
LevelEuler == Euler(Rad(2), Rad(0), Rad(0))

FiniteEulers ==
    {LevelEuler,
     Euler(Rad(-2), Rad(12), Rad(34)),
     Euler(TinyRad(-1), Rad(20), Rad(-34))}

NonFiniteEulers ==
    {Euler(NaN, Rad(0), Rad(0)), Euler(Rad(2), PosInf, Rad(0)),
     Euler(Rad(2), Rad(0), NegInf)}

\* What Location.getHeadingAsync() settles with
Heading(trueHeading) == [k |-> "heading", trueHeading |-> trueHeading]

Throws == [k |-> "throws"]

HeadingResponses == {Heading(Deg(20)), Heading(NaN), Null, Throws}

(***************************************************************************)
(* src/beta-storage.ts                                                     *)
(***************************************************************************)
\* MIN_BETA = 0.01 and MAX_BETA = 0.30, in hundredths
MIN_BETA == 1
MAX_BETA == 30

\* the gain n / 100
Hundredths(n) == Decimal(FALSE, n, -2)

\* AsyncStorage.getItem(BETA_STORAGE_KEY): the item, null if there is none,
\* or a rejection
getItem(item, fails) == IF fails THEN Throws ELSE item

\* Variant: the range of the parsed value is not looked at.
loadBeta_AnyFinite(value) ==
    IF value = Throws THEN Hundredths(DEFAULT_BETA)
    ELSE IF value # Null /\ IsFinite(parseFloat(value)) THEN parseFloat(value)
    ELSE Hundredths(DEFAULT_BETA)

\* loadBeta(), given what getItem settled with
loadBeta(value) ==
    IF value = Throws THEN Hundredths(DEFAULT_BETA)
    ELSE IF /\ value # Null
            /\ IsFinite(parseFloat(value))
            /\ ~DecLt(parseFloat(value), Hundredths(MIN_BETA))
            /\ ~DecLt(Hundredths(MAX_BETA), parseFloat(value))
         THEN parseFloat(value)
    ELSE Hundredths(DEFAULT_BETA)

\* AsyncStorage.setItem(BETA_STORAGE_KEY, string): the item afterwards, or
\* a rejection
setItem(string, fails) == IF fails THEN Throws ELSE string

\* how a call of saveBeta ends: the item afterwards and what the promise
\* settles with
Saved(item, out) == [item |-> item, out |-> out]

\* Variant: the gain is written as it is given.
saveBeta_NoClamp(beta, item, fails) ==
    IF ~IsFinite(beta) THEN Saved(item, Undefined)
    ELSE IF setItem(toString(beta), fails) = Throws THEN Saved(item, Undefined)
    ELSE Saved(setItem(toString(beta), fails), Undefined)

\* saveBeta(beta), given the item before and whether setItem rejects
saveBeta(beta, item, fails) ==
    LET clampedBeta == DecMax(Hundredths(MIN_BETA), DecMin(Hundredths(MAX_BETA), beta))
    IN  IF ~IsFinite(beta) THEN Saved(item, Undefined)
        ELSE IF setItem(toString(clampedBeta), fails) = Throws
             THEN Saved(item, Undefined)
        ELSE Saved(setItem(toString(clampedBeta), fails), Undefined)

\* Gains the user may pick, in hundredths
Betas == {20}

MaxBetaCalls == 1

\* sector.at(when) for the device's location: the track of the sun there
Location(latitude, longitude, track) ==
    [latitude |-> latitude, longitude |-> longitude, track |-> track]

Locations ==
    {Location(47, -122, "arc"), Location(0, 0, "full"),
     Location(78, 15, "north"), Location(-34, 151, "signed")}

NoCall == [fn |-> "none"]

(***************************************************************************)
(* Init: the first render of App.                                          *)
(***************************************************************************)
Construct ==
    /\ subscribed = FALSE
    /\ gyroData = Null /\ accelData = Null /\ magData = Null
    /\ madgwick = NewMadgwick(DEFAULT_BETA)
    /\ ahrsFailureCount = 0
    /\ ahrsBeta = DEFAULT_BETA
    /\ headingOffset = Deg(0)
    /\ lastCalibrationTime = 0
    /\ calibrationInProgress = FALSE
    /\ isCalibrated = FALSE
    /\ priorOrientation = Null
    /\ orientation = [heading |-> Deg(0), pitch |-> Deg(0), roll |-> Deg(0)]
    /\ now = TickMs
    /\ solarPosition = [time |-> now, elevation |-> 0]
    /\ solarTable = Null
    /\ calibrationCalls = <<>>
    /\ betaCalls = <<>>
    /\ betaLoad = Null
    /\ crashed = FALSE
    /\ smoothed = 0
    /\ ev = "init"
    /\ failRun = 0

Init == Construct /\ storage = Null /\ call = NoCall

pipelineVars == <<madgwick, ahrsFailureCount, headingOffset, lastCalibrationTime,
                  calibrationInProgress, isCalibrated, priorOrientation, orientation,
                  solarPosition, calibrationCalls, smoothed, failRun>>

\* Date.now() advances
Tick ==
    /\ ~crashed
    /\ now < TickMs * (1 + MaxTicks)
    /\ now' = now + TickMs
    /\ UNCHANGED <<subscribed, gyroData, accelData, magData, ahrsBeta, solarTable,
                   betaCalls, crashed, ev, call, storage, betaLoad>>
    /\ UNCHANGED pipelineVars

\* The mount effect (App.tsx 461-528) with every permission granted and a
\* position fix: builds the solar table, then registers the listeners.
Mount(location) ==
    /\ ~crashed
    /\ ~subscribed
    /\ solarTable' = IF solarTable = Null
                     THEN generateSolarTable(location.track, now)
                     ELSE solarTable
    /\ subscribed' = TRUE
    /\ UNCHANGED <<gyroData, accelData, magData, ahrsBeta, betaCalls, now, crashed,
                   ev, call, storage, betaLoad>>
    /\ UNCHANGED pipelineVars

GyroscopeListener(data, euler) ==
    /\ ~crashed /\ subscribed
    /\ gyroData' = data
    /\ UNCHANGED <<accelData, magData>>
    /\ updateOrientationAHRS(euler)
    /\ UNCHANGED <<subscribed, ahrsBeta, solarTable, betaCalls, now, crashed, call,
                   storage, betaLoad>>

AccelerometerListener(data, euler) ==
    /\ ~crashed /\ subscribed
    /\ accelData' = data
    /\ UNCHANGED <<gyroData, magData>>
    /\ updateOrientationAHRS(euler)
    /\ UNCHANGED <<subscribed, ahrsBeta, solarTable, betaCalls, now, crashed, call,
                   storage, betaLoad>>

\* Variant: a reading with a non-finite component is not kept.
MagnetometerListener_DropsBad(data, euler) ==
    /\ ~crashed /\ subscribed
    /\ magData' = IF IsFinite(data.x) /\ IsFinite(data.y) /\ IsFinite(data.z)
                  THEN data ELSE magData
    /\ UNCHANGED <<gyroData, accelData>>
    /\ updateOrientationAHRS(euler)
    /\ UNCHANGED <<subscribed, ahrsBeta, solarTable, betaCalls, now, crashed, call,
                   storage, betaLoad>>

MagnetometerListener(data, euler) ==
    /\ ~crashed /\ subscribed
    /\ magData' = data
    /\ UNCHANGED <<gyroData, accelData>>
    /\ updateOrientationAHRS(euler)
    /\ UNCHANGED <<subscribed, ahrsBeta, solarTable, betaCalls, now, crashed, call,
                   storage, betaLoad>>

RemoveAt(seq, i) == SubSeq(seq, 1, i - 1) \o SubSeq(seq, i + 1, Len(seq))

\* Variant: an offset below -180 is stored as it is.
CalibrationOffset_NoWrapUp(attempt, iosHeading) ==
    LET correctedIosHeading ==
            IF Gt(Abs(attempt.pitch), Deg(45))
            THEN Rem(Add(iosHeading.trueHeading, Deg(180)), 360)
            ELSE iosHeading.trueHeading
    IN  WrapDown(Sub(correctedIosHeading, attempt.ahrsHeading))

\* Variant: the reference is turned round for an upward pitch only.
CalibrationOffset_UpwardOnly(attempt, iosHeading) ==
    LET correctedIosHeading ==
            IF Gt(attempt.pitch, Deg(45))
            THEN Rem(Add(iosHeading.trueHeading, Deg(180)), 360)
            ELSE iosHeading.trueHeading
    IN  WrapUp(WrapDown(Sub(correctedIosHeading, attempt.ahrsHeading)))

\* performCalibration from its await on (App.tsx 286-314): getHeadingAsync
\* settles with response for the i-th suspended call.
CalibrationOffset(attempt, iosHeading) ==
    LET correctedIosHeading ==
            IF Gt(Abs(attempt.pitch), Deg(45))
            THEN Rem(Add(iosHeading.trueHeading, Deg(180)), 360)
            ELSE iosHeading.trueHeading
    IN  WrapUp(WrapDown(Sub(correctedIosHeading, attempt.ahrsHeading)))

\* Variant: a reference is used whenever one is returned.
HeadingUsable_NoFiniteCheck(response) ==
    response # Throws /\ response # Null

\* iosHeading && Number.isFinite(iosHeading.trueHeading), when nothing threw
HeadingUsable(response) ==
    response # Throws /\ response # Null /\ IsFinite(response.trueHeading)

\* Variant: the flag is cleared at the end of the try block, not in finally.
performCalibrationSettle_NoFinally(i, response) ==
    /\ ~crashed
    /\ i \in 1 .. Len(calibrationCalls)
    /\ IF HeadingUsable(response)
       THEN /\ headingOffset' = CalibrationOffset(calibrationCalls[i], response)
            /\ lastCalibrationTime' = now
            /\ isCalibrated' = TRUE
            /\ ev' = "stored"
       ELSE /\ UNCHANGED <<headingOffset, lastCalibrationTime, isCalibrated>>
            /\ ev' = "abandoned"
    /\ calibrationInProgress' = (response = Throws)
    /\ calibrationCalls' = RemoveAt(calibrationCalls, i)
    /\ UNCHANGED <<subscribed, gyroData, accelData, magData, madgwick,
                   ahrsFailureCount, ahrsBeta, priorOrientation, orientation,
                   solarPosition, solarTable, betaCalls, now, crashed, smoothed,
                   failRun, call, storage, betaLoad>>

\* Variant: the result is dropped when the filter has been replaced since.
performCalibrationSettle_StaleDropped(i, response) ==
    /\ ~crashed
    /\ i \in 1 .. Len(calibrationCalls)
    /\ IF HeadingUsable(response) /\ madgwick.q # 0
       THEN /\ headingOffset' = CalibrationOffset(calibrationCalls[i], response)
            /\ lastCalibrationTime' = now
            /\ isCalibrated' = TRUE
            /\ ev' = "stored"
       ELSE /\ UNCHANGED <<headingOffset, lastCalibrationTime, isCalibrated>>
            /\ ev' = "abandoned"
    /\ calibrationInProgress' = FALSE
    /\ calibrationCalls' = RemoveAt(calibrationCalls, i)
    /\ UNCHANGED <<subscribed, gyroData, accelData, magData, madgwick,
                   ahrsFailureCount, ahrsBeta, priorOrientation, orientation,
                   solarPosition, solarTable, betaCalls, now, crashed, smoothed,
                   failRun, call, storage, betaLoad>>

performCalibrationSettle(i, response) ==
    /\ ~crashed
    /\ i \in 1 .. Len(calibrationCalls)
    /\ IF HeadingUsable(response)
       THEN /\ headingOffset' = CalibrationOffset(calibrationCalls[i], response)
            /\ lastCalibrationTime' = now
            /\ isCalibrated' = TRUE
            /\ ev' = "stored"
       ELSE /\ UNCHANGED <<headingOffset, lastCalibrationTime, isCalibrated>>
            /\ ev' = "abandoned"
    /\ calibrationInProgress' = FALSE
    /\ calibrationCalls' = RemoveAt(calibrationCalls, i)
    /\ UNCHANGED <<subscribed, gyroData, accelData, magData, madgwick,
                   ahrsFailureCount, ahrsBeta, priorOrientation, orientation,
                   solarPosition, solarTable, betaCalls, now, crashed, smoothed,
                   failRun, call, storage, betaLoad>>

\* handleBetaChange(newBeta) up to its await (App.tsx 435-440)
handleBetaChange(newBeta, fails) ==
    /\ ~crashed
    /\ ahrsBeta' = newBeta
    /\ storage' = saveBeta(Hundredths(newBeta), storage, fails).item
    /\ call' = [fn |-> "saveBeta", args |-> <<Hundredths(newBeta), storage, fails>>,
                out |-> saveBeta(Hundredths(newBeta), storage, fails).out]
    /\ betaCalls' = Append(betaCalls, newBeta)
    /\ UNCHANGED <<subscribed, gyroData, accelData, magData, solarTable, now, crashed,
                   ev, betaLoad>>
    /\ UNCHANGED pipelineVars

\* a variant that also forgets the last calibration with the old filter
handleBetaChangeSettle_Uncalibrates(i) ==
    /\ ~crashed
    /\ i \in 1 .. Len(betaCalls)
    /\ madgwick' = NewMadgwick(betaCalls[i])
    /\ ahrsFailureCount' = 0
    /\ failRun' = 0
    /\ lastCalibrationTime' = 0
    /\ betaCalls' = RemoveAt(betaCalls, i)
    /\ ev' = "gain"
    /\ UNCHANGED <<subscribed, gyroData, accelData, magData, ahrsBeta, headingOffset,
                   calibrationInProgress, isCalibrated,
                   priorOrientation, orientation, solarPosition, solarTable,
                   calibrationCalls, now, crashed, smoothed, call, storage, betaLoad>>

\* a variant that replaces the filter and leaves the failure counter alone
handleBetaChangeSettle_KeepsCount(i) ==
    /\ ~crashed
    /\ i \in 1 .. Len(betaCalls)
    /\ madgwick' = NewMadgwick(betaCalls[i])
    /\ failRun' = 0
    /\ betaCalls' = RemoveAt(betaCalls, i)
    /\ ev' = "gain"
    /\ UNCHANGED <<subscribed, gyroData, accelData, magData, ahrsBeta, headingOffset,
                   lastCalibrationTime, calibrationInProgress, isCalibrated,
                   priorOrientation, orientation, solarPosition, solarTable,
                   calibrationCalls, now, crashed, smoothed, call, storage, betaLoad,
                   ahrsFailureCount>>

\* a variant that sets the gain on the filter in use instead of replacing it
handleBetaChangeSettle_KeepsFilter(i) ==
    /\ ~crashed
    /\ i \in 1 .. Len(betaCalls)
    /\ madgwick' = [madgwick EXCEPT !.beta = betaCalls[i]]
    /\ ahrsFailureCount' = 0
    /\ failRun' = 0
    /\ betaCalls' = RemoveAt(betaCalls, i)
    /\ ev' = "gain"
    /\ UNCHANGED <<subscribed, gyroData, accelData, magData, ahrsBeta, headingOffset,
                   lastCalibrationTime, calibrationInProgress, isCalibrated,
                   priorOrientation, orientation, solarPosition, solarTable,
                   calibrationCalls, now, crashed, smoothed, call, storage, betaLoad>>

\* handleBetaChange after saveBeta settled (App.tsx 442-449)
handleBetaChangeSettle(i) ==
    /\ ~crashed
    /\ i \in 1 .. Len(betaCalls)
    /\ madgwick' = NewMadgwick(betaCalls[i])
    /\ ahrsFailureCount' = 0
    /\ failRun' = 0
    /\ betaCalls' = RemoveAt(betaCalls, i)
    /\ ev' = "gain"
    /\ UNCHANGED <<subscribed, gyroData, accelData, magData, ahrsBeta, headingOffset,
                   lastCalibrationTime, calibrationInProgress, isCalibrated,
                   priorOrientation, orientation, solarPosition, solarTable,
                   calibrationCalls, now, crashed, smoothed, call, storage, betaLoad>>

\* The mount-time loadBeta has returned
Loaded == [k |-> "loaded"]

\* A gain of the picker as the refs and the filter hold it, in hundredths
InHundredths(beta) ==
    CHOOSE n \in MIN_BETA .. MAX_BETA :
        ~DecLt(beta, Hundredths(n)) /\ ~DecLt(Hundredths(n), beta)

\* The effect that loads the gain on mount, up to its await (App.tsx
\* 418-420): getItem is served before any setItem issued after it
loadBetaEffect(fails) ==
    /\ ~crashed
    /\ betaLoad = Null
    /\ betaLoad' = [k |-> "awaiting", value |-> getItem(storage, fails)]
    /\ UNCHANGED <<subscribed, gyroData, accelData, magData, ahrsBeta, solarTable,
                   betaCalls, now, crashed, ev, call, storage>>
    /\ UNCHANGED pipelineVars

\* The effect after its await (App.tsx 420-431)
loadBetaSettle ==
    /\ ~crashed
    /\ betaLoad.k = "awaiting"
    /\ \E loaded \in {loadBeta(betaLoad.value)} :
       \E storedBeta \in {InHundredths(loaded)} :
           /\ ahrsBeta' = storedBeta
           /\ madgwick' = IF storedBeta # DEFAULT_BETA
                          THEN NewMadgwick(storedBeta)
                          ELSE madgwick
    /\ betaLoad' = Loaded
    /\ ev' = "loaded"
    /\ UNCHANGED <<subscribed, gyroData, accelData, magData, ahrsFailureCount,
                   headingOffset, lastCalibrationTime, calibrationInProgress,
                   isCalibrated, priorOrientation, orientation, solarPosition,
                   solarTable, calibrationCalls, betaCalls, now, crashed, smoothed,
                   failRun, call, storage>>

\* HeadUpDisplay(props) (App.tsx 118-190): a render reads
\* props.solarPosition.elevation and props.solarPosition.time; reading a
\* property of null or undefined throws, and the render error unmounts App.
HeadUpDisplayThrows(props) ==
    props.solarPosition = Null \/ props.solarPosition = Undefined

Render ==
    /\ ~crashed
    /\ crashed' = HeadUpDisplayThrows([orientation |-> orientation,
                                       solarPosition |-> solarPosition])
    /\ UNCHANGED <<subscribed, gyroData, accelData, magData, ahrsBeta, solarTable,
                   betaCalls, now, ev, call, storage, betaLoad>>
    /\ UNCHANGED pipelineVars

(***************************************************************************)
(* Specifications.  The actions are the same in each; what differs is the  *)
(* range of inputs the environment draws from.                             *)
(***************************************************************************)
Listeners(gyros, accels, mags, eulers) ==
    \/ \E data \in gyros, euler \in eulers : GyroscopeListener(data, euler)
    \/ \E data \in accels, euler \in eulers : AccelerometerListener(data, euler)
    \/ \E data \in mags, euler \in eulers : MagnetometerListener(data, euler)

Calibrations(responses) ==
    \E i \in 1 .. Len(calibrationCalls), response \in responses :
        performCalibrationSettle(i, response)

GainChanges ==
    \/ /\ Len(betaCalls) < MaxBetaCalls
       /\ \E newBeta \in Betas : handleBetaChange(newBeta, FALSE)
    \/ \E i \in 1 .. Len(betaCalls) : handleBetaChangeSettle(i)

\* The pipeline with good sensor readings: orientation, calibration, the
\* solar lookup and the display.
Next ==
    \/ Tick
    \/ Mount(Location(47, -122, "arc"))
    \/ Listeners({GoodReading}, {GoodReading}, {GoodReading}, FiniteEulers)
    \/ Calibrations(HeadingResponses)
    \/ GainChanges
    \/ Render

Spec == Init /\ [][Next]_vars

\* The pipeline with failing sensors and a failing filter, the clock held.
NextSensors ==
    \/ Mount(Location(47, -122, "arc"))
    \/ Listeners(GyroReadings, AccelReadings, MagReadings,
                 {LevelEuler} \cup NonFiniteEulers)
    \/ Calibrations({Heading(Deg(20))})
    \/ GainChanges

SpecSensors == Init /\ [][NextSensors]_vars

\* The solar table for every track of the sun, then the pipeline on it.
NextSolar ==
    \/ Tick
    \/ \E location \in Locations : Mount(location)
    \/ Listeners({GoodReading}, {GoodReading}, {GoodReading}, {LevelEuler})
    \/ Calibrations({Heading(Deg(20)), Heading(Deg(200))})
    \/ Render

SpecSolar == Init /\ [][NextSolar]_vars

\* Filter outputs either side of the level threshold: level at 10 degrees,
\* pitched 15 degrees up at 350, pitched 50 degrees down at 350.
CalibrationEulers ==
    {LevelEuler,
     Euler(Rad(70), Rad(3), Rad(0)),
     Euler(Rad(70), Rad(-10), Rad(0))}

\* Reference headings either side of south, and no reference at all
CalibrationResponses ==
    {Heading(Deg(190)), Heading(Deg(350)), Null}

\* The pipeline around compass calibration: the clock, pitches at the
\* thresholds and references on both sides of the filter's heading.
NextCalibration ==
    \/ Tick
    \/ Mount(Location(47, -122, "arc"))
    \/ Listeners({GoodReading}, {GoodReading}, {GoodReading}, CalibrationEulers)
    \/ Calibrations(CalibrationResponses)

SpecCalibration == Init /\ [][NextCalibration]_vars

\* Filter outputs either side of the 45 degree mark: pitched 45 and 50
\* degrees up at a heading of 10, 45 and 50 degrees down at 350.
FlipEulers ==
    {Euler(Rad(2), Rad(9), Rad(0)),
     Euler(Rad(2), Rad(10), Rad(0)),
     Euler(Rad(70), Rad(-9), Rad(0)),
     Euler(Rad(70), Rad(-10), Rad(0))}

\* The first calibration of a tilted device, the clock held.
NextFlip ==
    \/ Mount(Location(47, -122, "arc"))
    \/ Listeners({GoodReading}, {GoodReading}, {GoodReading}, FlipEulers)
    \/ Calibrations(CalibrationResponses)

SpecFlip == Init /\ [][NextFlip]_vars

(***************************************************************************)
(* The pure functions of src/ahrs-orientation.ts, applied to inputs drawn  *)
(* by Init.                                                                *)
(***************************************************************************)
\* Whole degrees up to MaxTurns turns either way, the values one grid step
\* beside the wrap points, the two zeros and the values next to zero.
MaxTurns == 2

WholeDegrees == {Deg(d) : d \in (-360 * MaxTurns - 5) .. (360 * MaxTurns + 5)}

BesideWrap ==
    {Round(360 * Scale * t + u, 0, FALSE) : t \in -MaxTurns .. MaxTurns, u \in {-1, 1}}

HeadingInputs ==
    WholeDegrees \cup BesideWrap \cup {NegZero, Tiny(-1), Tiny(1)}

\* Headings at and beside the points where the helpers change course, with
\* the zeros, the values next to zero and the doubles next to 360.
AngleSamples ==
    {Deg(d) : d \in {-540, -360, -190, -181, -180, -179, -90, -10, 0, 10, 90, 100,
                      179, 180, 181, 190, 200, 270, 350, 359, 360, 370, 540, 1000}}
        \cup {NegZero, Tiny(-1), Tiny(1), DegUlp(0, 2), DegUlp(360, -1)}

\* smoothing factors 0, 0.2, 0.8 and 1
Smoothings == {Smoothing(0, 1), Smoothing(1, 5), Smoothing(4, 5), Smoothing(1, 1)}

\* Orientations, some with components out of range
Orient(heading, pitch, roll) == [heading |-> heading, pitch |-> pitch, roll |-> roll]

OrientationSamples ==
    {Orient(Deg(0), Deg(0), Deg(0)),
     Orient(Deg(350), Deg(85), Deg(170)),
     Orient(Deg(10), Deg(-85), Deg(-170)),
     Orient(Deg(90), Deg(50), Deg(0)),
     Orient(Deg(270), Deg(50), Deg(0)),
     Orient(Tiny(-1), Deg(95), Deg(200)),
     Orient(Deg(400), Deg(-120), Deg(-400))}

Input(of, args) == [fn |-> "input", of |-> of, args |-> args]

\* pitches in and out of range, at and beside the ends
PitchSamples ==
    {Deg(d) : d \in {-1000, -180, -91, -90, -89, -45, 0, 45, 89, 90, 91, 180, 1000}}
        \cup {NegZero, Tiny(-1), Tiny(1), DegUlp(90, -1), DegUlp(90, 1),
              DegUlp(-90, -1), DegUlp(-90, 1), PosInf, NegInf}

\* readings with every mix of finite and non-finite components, and none
ComponentSamples == {Deg(0), Deg(-10), NaN, PosInf, NegInf}

ReadingSamples ==
    {Null} \cup {Reading(x, y, z) : x \in ComponentSamples, y \in ComponentSamples,
                                    z \in ComponentSamples}

AngleInputs ==
    {Input("normalizeHeading", <<h>>) : h \in HeadingInputs}
        \cup {Input("headingDifference", <<a, b>>) : a \in AngleSamples, b \in AngleSamples}
        \cup {Input("smoothValue", <<prior, next, smoothing>>) :
                  prior \in AngleSamples, next \in AngleSamples, smoothing \in Smoothings}
        \cup {Input("smoothOrientation", <<prior, next, smoothing>>) :
                  prior \in OrientationSamples, next \in OrientationSamples,
                  smoothing \in Smoothings}
        \cup {Input("clampPitch", <<pitch>>) : pitch \in PitchSamples}
        \cup {Input("isValidSensorReading", <<reading>>) : reading \in ReadingSamples}

InitAngle ==
    /\ Construct
    /\ storage = Null
    /\ call \in AngleInputs

notCall == <<subscribed, gyroData, accelData, magData, madgwick, ahrsFailureCount,
             ahrsBeta, headingOffset, lastCalibrationTime, calibrationInProgress,
             isCalibrated, priorOrientation, orientation, solarPosition, solarTable,
             calibrationCalls, betaCalls, storage, betaLoad, now, crashed, smoothed, ev,
             failRun>>

Output(fn, args, out) == [fn |-> fn, args |-> args, out |-> out]

CallNormalizeHeading ==
    /\ call.fn = "input" /\ call.of = "normalizeHeading"
    /\ call' = Output("normalizeHeading", call.args, normalizeHeading(call.args[1]))
    /\ UNCHANGED notCall

CallHeadingDifference ==
    /\ call.fn = "input" /\ call.of = "headingDifference"
    /\ call' = Output("headingDifference", call.args,
                      headingDifference(call.args[1], call.args[2]))
    /\ UNCHANGED notCall

CallSmoothValue ==
    /\ call.fn = "input" /\ call.of = "smoothValue"
    /\ call' = Output("smoothValue", call.args,
                      smoothValue(call.args[1], call.args[2], call.args[3]))
    /\ UNCHANGED notCall

CallSmoothOrientation ==
    /\ call.fn = "input" /\ call.of = "smoothOrientation"
    /\ call' = Output("smoothOrientation", call.args,
                      smoothOrientation(call.args[1], call.args[2], call.args[3]))
    /\ UNCHANGED notCall

CallClampPitch ==
    /\ call.fn = "input" /\ call.of = "clampPitch"
    /\ call' = Output("clampPitch", call.args, clampPitch(call.args[1]))
    /\ UNCHANGED notCall

CallIsValidSensorReading ==
    /\ call.fn = "input" /\ call.of = "isValidSensorReading"
    /\ call' = Output("isValidSensorReading", call.args,
                      isValidSensorReading(call.args[1]))
    /\ UNCHANGED notCall

NextAngle ==
    \/ CallNormalizeHeading
    \/ CallHeadingDifference
    \/ CallSmoothValue
    \/ CallSmoothOrientation
    \/ CallClampPitch
    \/ CallIsValidSensorReading

SpecAngle == InitAngle /\ [][NextAngle]_vars

(***************************************************************************)
(* An orientation fed one next orientation after the other through        *)
(* smoothOrientation with smoothing 0.2, as updateOrientationAHRS does.    *)
(* gentle: the start is a heading in [0, 360) and every next so far was a  *)
(* heading in [0, 360) within 20 degrees of the heading it met.  run: how  *)
(* many times in a row the latest next has been fed.                       *)
(***************************************************************************)
TrackHeadings ==
    {Deg(0), DegUlp(0, 2), Deg(3), Deg(10), Deg(20), Deg(90), Deg(270), Deg(340),
     Deg(350), DegUlp(360, -1)}

TrackOrientations == {Orient(h, Deg(50), Deg(0)) : h \in TrackHeadings}

IsHeading(h) == IsFinite(h) /\ ~Lt(h, Deg(0)) /\ Lt(h, Deg(360))

InitTrack ==
    /\ Construct
    /\ storage = Null
    /\ \E start \in TrackOrientations :
           call = [fn |-> "track", orientation |-> start, previous |-> Null,
                   next |-> Null, steps |-> 0, run |-> 0,
                   gentle |-> IsHeading(start.heading)]

Feed(next) ==
    /\ call.fn = "track"
    /\ call.steps < GridSteps
    /\ call' = [fn |-> "track",
                orientation |-> smoothOrientation(call.orientation, next, Smoothing(1, 5)),
                previous |-> call.orientation,
                next |-> next,
                steps |-> call.steps + 1,
                run |-> IF next = call.next THEN call.run + 1 ELSE 1,
                gentle |-> /\ call.gentle
                           /\ IsHeading(next.heading)
                           /\ ~Gt(Abs(headingDifference(call.orientation.heading,
                                                         next.heading)), Deg(20))]
    /\ UNCHANGED notCall

NextTrack == \E next \in TrackOrientations : Feed(next)

SpecTrack == InitTrack /\ [][NextTrack]_vars

(***************************************************************************)
(* The roll of an orientation fed one next orientation after the other:    *)
(* the filter's roll is an angle in [-180, 180].  The track starts at a    *)
(* first Orientation, whose roll is the filter's, or at a roll of 540 or   *)
(* -540, the value the doubles settle on when 180 (or -180) keeps being    *)
(* fed after the roll has passed 360.                                      *)
(***************************************************************************)
RollInputs == {Deg(-180), Deg(-170), Deg(-130), Deg(-10), Deg(10), Deg(130), Deg(180)}

InitRoll ==
    /\ Construct
    /\ storage = Null
    /\ \E start \in {Deg(-180), Deg(180), Deg(-540), Deg(540)} :
           call = [fn |-> "track", orientation |-> Orient(Deg(0), Deg(0), start),
                   previous |-> Null, next |-> Null, steps |-> 0, run |-> 0,
                   gentle |-> TRUE]

NextRoll == \E r \in RollInputs : Feed(Orient(Deg(0), Deg(0), r))

SpecRoll == InitRoll /\ [][NextRoll]_vars

(***************************************************************************)
(* The gain of the filter: the load on mount, gain changes that overlap    *)
(* and whose saves complete in any order, and resets after three failed    *)
(* updates in a row.                                                       *)
(***************************************************************************)
GainPicks == {20, 30}

MaxGainCalls == 2

GainItems == {Null, Str(<<"0", ".", "2">>)}

InitGain ==
    /\ Construct
    /\ storage \in GainItems
    /\ call = NoCall

NextGain ==
    \/ \E fails \in BOOLEAN : loadBetaEffect(fails)
    \/ loadBetaSettle
    \/ Mount(Location(47, -122, "arc"))
    \/ Listeners({GoodReading}, {GoodReading}, {GoodReading},
                 {Euler(NaN, Rad(0), Rad(0))})
    \/ /\ betaLoad # Null
       /\ Len(betaCalls) < MaxGainCalls
       /\ \E newBeta \in GainPicks : handleBetaChange(newBeta, FALSE)
    \/ \E i \in 1 .. Len(betaCalls) : handleBetaChangeSettle(i)

SpecGain == InitGain /\ [][NextGain]_vars

(***************************************************************************)
(* The stored gain: whatever string the storage holds to begin with, read  *)
(* by loadBeta and written by saveBeta and by the gain picker, with reads  *)
(* and writes that may fail.                                               *)
(***************************************************************************)
StoredStrings ==
    {<<"0", ".", "2">>, <<"0", ".", "0", "1">>, <<"0", ".", "3">>,
     <<"0", ".", "3", "0">>, <<"0", ".", "1">>, <<"0", ".", "1", "2", "5">>,
     <<"0", ".", "0", "0", "9">>, <<"0", ".", "3", "0", "1">>, <<"0">>, <<"1">>,
     <<"-", "0", ".", "2">>, <<"+", ".", "2">>, <<"2", "e", "-", "1">>,
     <<"2", "E", "1">>, <<"1", "e", "9", "9", "9">>, <<"I", "n", "f", "i", "n", "i", "t", "y">>,
     <<"N", "a", "N">>, <<"a", "b", "c">>, <<>>, <<" ", "0", ".", "2", "5">>,
     <<"0", ".", "2", "a", "b", "c">>, <<"n", "u", "l", "l">>}

StoredItems == {Null} \cup {Str(chars) : chars \in StoredStrings}

\* numbers handed to saveBeta
BetaSamples ==
    {Hundredths(n) : n \in {0, MIN_BETA, DEFAULT_BETA, 20, MAX_BETA, 31, 100}}
    \cup {Decimal(FALSE, 9, -3), Decimal(FALSE, 125, -3), Decimal(FALSE, 301, -3),
          Decimal(TRUE, 0, 0), Decimal(TRUE, 2, -1), Decimal(FALSE, 1, -7),
          Decimal(FALSE, 1, 21), NotANumber, Infinity(FALSE), Infinity(TRUE)}

InitBeta ==
    /\ Construct
    /\ storage \in StoredItems
    /\ call = NoCall

appVars == <<subscribed, gyroData, accelData, magData, madgwick, ahrsFailureCount,
             ahrsBeta, headingOffset, lastCalibrationTime, calibrationInProgress,
             isCalibrated, priorOrientation, orientation, solarPosition, solarTable,
             calibrationCalls, betaCalls, now, crashed, smoothed, ev, failRun,
             betaLoad>>

\* after: the arguments of the saveBeta call that loadBeta follows, if it
\* follows one
CallLoadBeta ==
    /\ \E fails \in BOOLEAN :
           call' = [fn |-> "loadBeta", args |-> <<storage, fails>>,
                    out |-> loadBeta(getItem(storage, fails)),
                    after |-> IF call.fn = "saveBeta" THEN call.args ELSE <<>>]
    /\ UNCHANGED notCall

CallSaveBeta ==
    /\ \E beta \in BetaSamples, fails \in BOOLEAN :
           /\ storage' = saveBeta(beta, storage, fails).item
           /\ call' = Output("saveBeta", <<beta, storage, fails>>,
                             saveBeta(beta, storage, fails).out)
    /\ UNCHANGED appVars

NextBeta ==
    \/ CallLoadBeta
    \/ CallSaveBeta
    \/ /\ Len(betaCalls) < MaxBetaCalls
       /\ \E newBeta \in Betas, fails \in BOOLEAN : handleBetaChange(newBeta, fails)
    \/ \E i \in 1 .. Len(betaCalls) : handleBetaChangeSettle(i)

SpecBeta == InitBeta /\ [][NextBeta]_vars

(***************************************************************************)
(* Properties.  A step of the pipeline is recognised by the handler that   *)
(* takes it and by what the environment handed to that handler.            *)
(***************************************************************************)
AnyReading == GyroReadings \cup AccelReadings \cup MagReadings

\* a sensor callback in which the filter, if it is updated, yields one of eulers
Cycle(eulers) == Listeners(AnyReading, AnyReading, AnyReading, eulers)

AllDelivered == gyroData # Null /\ accelData # Null /\ magData # Null

FiniteReading(reading) ==
    reading # Null /\ IsFinite(reading.x) /\ IsFinite(reading.y) /\ IsFinite(reading.z)

AllFinite == FiniteReading(gyroData) /\ FiniteReading(accelData) /\ FiniteReading(magData)

InDegrees(x, low, high) == IsFinite(x) /\ ~Lt(x, Deg(low)) /\ ~Gt(x, Deg(high))

\* C1: in every reachable state, the first Orientation included, the current
\* Orientation has its heading in [0, 360) and its pitch in [-90, 90].
C1_OrientationInRange ==
    /\ InDegrees(orientation.heading, 0, 360)
    /\ Lt(orientation.heading, Deg(360))
    /\ InDegrees(orientation.pitch, -90, 90)

\* C2: counting from a counter of 0, the tenth consecutive filter update with a
\* non-finite output (no finite output and no change of gain in between)
\* replaces the filter by a fresh one carrying the current gain and zeroes the
\* counter; the nine before it leave the filter in place and count up; and a
\* finite output is accepted whenever it comes, the update after a reset
\* included: it yields an Orientation and leaves the counter at 0.
C2_TenthFailureResets ==
    [][/\ (AllFinite' /\ Cycle(NonFiniteEulers)) =>
              /\ ahrsFailureCount = failRun
              /\ IF failRun = MAX_AHRS_FAILURES - 1
                 THEN /\ madgwick' = NewMadgwick(ahrsBeta)
                      /\ ahrsFailureCount' = 0
                 ELSE /\ madgwick' # NewMadgwick(ahrsBeta)
                      /\ ahrsFailureCount' = ahrsFailureCount + 1
                      /\ ahrsFailureCount' < MAX_AHRS_FAILURES
              /\ UNCHANGED <<orientation, priorOrientation>>
       /\ (AllFinite' /\ Cycle({LevelEuler})) =>
              /\ ahrsFailureCount' = 0
              /\ madgwick' = MadgwickUpdate(madgwick)
              /\ priorOrientation' # Null
              /\ orientation' = priorOrientation'
      ]_vars

C2_Reset ==
    /\ ev = "reset"
    /\ ahrsFailureCount = 0
    /\ madgwick = NewMadgwick(ahrsBeta)

\* C3: the first successful orientation starts a calibration attempt whatever
\* the pitch, and every other attempt starts in a cycle where |pitch| < 15
\* and at least 30 s have passed since the last calibration.
C3_AttemptsOnlyWhenLevelAndDue ==
    [][/\ (priorOrientation = Null /\ priorOrientation' # Null) =>
              Len(calibrationCalls') = Len(calibrationCalls) + 1
       /\ (priorOrientation # Null /\ Len(calibrationCalls') > Len(calibrationCalls)) =>
              LET attempt == calibrationCalls'[Len(calibrationCalls')]
              IN  /\ Lt(Abs(attempt.pitch), Deg(CALIBRATION_PITCH_THRESHOLD))
                  /\ lastCalibrationTime # 0
                  /\ now - lastCalibrationTime >= CALIBRATION_INTERVAL_MS
      ]_vars

\* C4: at most one calibration attempt is in flight; the flag is set exactly
\* while one is; it is cleared only by that attempt finishing; and a cycle
\* that comes while it is set starts nothing and changes nothing of the
\* calibration.
C4_OneCalibrationInFlight ==
    [][/\ Len(calibrationCalls') <= 1
       /\ calibrationInProgress' <=> (Len(calibrationCalls') = 1)
       /\ (calibrationInProgress /\ ~calibrationInProgress') =>
              Calibrations(HeadingResponses)
       /\ (calibrationInProgress /\ Cycle(FiniteEulers)) =>
              UNCHANGED <<calibrationInProgress, calibrationCalls, headingOffset,
                          lastCalibrationTime, isCalibrated>>
      ]_vars

C4_TriggerWhileInFlight ==
    /\ calibrationInProgress
    /\ Len(calibrationCalls) = 1
    /\ lastCalibrationTime = 0
    /\ ev = "updated"
    /\ smoothed >= 1

\* what getHeadingAsync settles with when no usable reference is to be had
BadResponses == {Heading(NaN), Null, Throws}

\* C5: an attempt whose reference is unavailable, non-finite or failed leaves
\* the stored offset and the calibration timestamp as they were, raises
\* nothing and disturbs nothing of the pipeline; it only clears the flag, so
\* that the next cycle meeting the trigger condition starts a new attempt.
C5_FailedReferenceKeepsOffset ==
    [][/\ Calibrations(BadResponses) =>
              /\ UNCHANGED <<headingOffset, lastCalibrationTime, isCalibrated,
                             orientation, priorOrientation, madgwick,
                             ahrsFailureCount, solarPosition, crashed>>
              /\ ~calibrationInProgress'
              /\ calibrationCalls' = <<>>
       /\ \A euler \in FiniteEulers :
              (/\ ~calibrationInProgress
               /\ ShouldCalibrate(ToDegrees(euler.pitch))
               /\ AllFinite'
               /\ Cycle({euler})) =>
                  /\ calibrationInProgress'
                  /\ Len(calibrationCalls') = 1
      ]_vars

C5_AbandonedAfterCalibration ==
    /\ ev = "abandoned"
    /\ isCalibrated
    /\ headingOffset # Deg(0)
    /\ ~calibrationInProgress

AnyEuler == FiniteEulers \cup NonFiniteEulers

\* C6: a callback that finds a non-finite component in any of the three
\* latest readings changes nothing but the stored reading: no filter update,
\* no count of a failure, no Orientation, no calibration, no error.
C6_NonFiniteReadingRejected ==
    [][(AllDelivered' /\ ~AllFinite' /\ Cycle(AnyEuler)) =>
           UNCHANGED <<madgwick, ahrsFailureCount, orientation, priorOrientation,
                       solarPosition, headingOffset, lastCalibrationTime,
                       calibrationInProgress, calibrationCalls, isCalibrated,
                       crashed>>
      ]_vars

C6_SkippedWhileRunning ==
    /\ ev = "skipped"
    /\ priorOrientation # Null
    /\ AllDelivered /\ ~AllFinite

\* C7: hasAllSensorReadings holds exactly when all three sensors have
\* delivered; until then the filter stays in its initial state and no
\* Orientation is produced; from then on every callback that finds the three
\* latest readings finite applies exactly one update to the filter (which the
\* tenth failure in a row then replaces).
C7_WarmUpGate ==
    [][/\ hasAllSensorReadings(gyroData', accelData', magData') <=> AllDelivered'
       /\ ~AllDelivered' =>
              /\ madgwick'.q = 0
              /\ priorOrientation' = Null
              /\ orientation' = orientation
       /\ (AllFinite' /\ Cycle(AnyEuler)) =>
              \/ madgwick' = MadgwickUpdate(madgwick)
              \/ /\ failRun = MAX_AHRS_FAILURES - 1
                 /\ madgwick' = NewMadgwick(ahrsBeta)
      ]_vars

C7_WaitingForThird ==
    /\ ev = "waiting"
    /\ gyroData # Null /\ accelData # Null /\ magData = Null
    /\ madgwick.q = 0

\* C8: when the solar table is there and the bucket of the current heading
\* is unset, neither the cycle nor the display fails.
C8_UnsetBucketIsNoData == ~crashed

IsSolarEntry(slot) ==
    slot = Null \/ (DOMAIN slot = {"time", "elevation"} /\ slot.time \in Int
                    /\ slot.elevation \in Int)

\* C9: whatever azimuths the solar model yields over the day, the table has
\* exactly 360 slots, indexed 0 .. 359, each one null or a time with an
\* elevation.
C9_TableHas360Slots ==
    solarTable # Null =>
        /\ solarTable.length = TABLE_SLOTS
        /\ DOMAIN solarTable.at = 0 .. (TABLE_SLOTS - 1)
        /\ \A i \in DOMAIN solarTable.at : IsSolarEntry(solarTable.at[i])

Congruent360(a, b) == (a.v - b.v) % (360 * Scale) = 0 /\ a.e = b.e

\* C10: for every finite h, normalizeHeading(h) lies in [0, 360) and is
\* congruent to h modulo 360; 360 gives 0, -10 gives 350, and a negative
\* multiple of 360 gives 0, not negative zero.
C10_NormalizeHeadingInRange ==
    call.fn = "normalizeHeading" =>
        LET h == call.args[1]
            out == call.out
        IN  /\ InDegrees(out, 0, 360) /\ Lt(out, Deg(360))
            /\ Congruent360(out, h)
            /\ ~out.nz
            /\ h = Deg(360) => out = Deg(0)
            /\ h = Deg(-10) => out = Deg(350)

\* C11 as stated: headingDifference(a, b) lies in (-180, 180].
C11_HalfOpenInterval ==
    call.fn = "headingDifference" =>
        Gt(call.out, Deg(-180)) /\ ~Gt(call.out, Deg(180))

\* C11 as amended: headingDifference(a, b) lies in the closed interval
\* [-180, 180]; -180 is returned only when b - a is -180 or lies a whole number
\* of turns below it.
C11_ClosedInterval ==
    call.fn = "headingDifference" =>
        LET diff == Sub(call.args[2], call.args[1])
        IN  /\ ~Lt(call.out, Deg(-180)) /\ ~Gt(call.out, Deg(180))
            /\ Eq(call.out, Deg(-180)) =>
                   ~Gt(diff, Deg(-180)) /\ Congruent360(diff, Deg(-180))

C11_MinusHalfTurn ==
    /\ call.fn = "headingDifference"
    /\ call.args = <<Deg(180), Deg(0)>>
    /\ call.out = Deg(-180)

\* C12: headingDifference(a, b) is congruent to b - a modulo 360 and at most
\* 180 in magnitude; it is 0 for a = b, 20 from 350 to 10 and -20 from 10 to
\* 350.
C12_ShortestSignedPath ==
    call.fn = "headingDifference" =>
        LET a == call.args[1]
            b == call.args[2]
        IN  /\ Congruent360(call.out, Sub(b, a))
            /\ ~Gt(Abs(call.out), Deg(180))
            /\ a = b => Eq(call.out, Deg(0))
            /\ (a = Deg(350) /\ b = Deg(10)) => call.out = Deg(20)
            /\ (a = Deg(10) /\ b = Deg(350)) => call.out = Deg(-20)

C12_AcrossNorth ==
    /\ call.fn = "headingDifference"
    /\ call.args = <<Deg(350), Deg(10)>>
    /\ call.out = Deg(20)

\* C13 as stated: smoothValue(prior, next, 0) is next and
\* smoothValue(prior, next, 1) is prior.
C13_EndsOfSmoothing ==
    call.fn = "smoothValue" =>
        /\ call.args[3] = Smoothing(0, 1) => Eq(call.out, call.args[2])
        /\ call.args[3] = Smoothing(1, 1) => Eq(call.out, call.args[1])

\* C13 as amended: smoothValue(prior, next, 1) is prior; smoothValue(prior,
\* next, 0) is next - 360 when next > prior + 180, next + 360 when
\* next < prior - 180, and next itself otherwise.
C13_EndsOfSmoothingWrapped ==
    call.fn = "smoothValue" =>
        LET prior == call.args[1]
            next == call.args[2]
        IN  /\ call.args[3] = Smoothing(1, 1) => Eq(call.out, prior)
            /\ call.args[3] = Smoothing(0, 1) =>
                   IF Gt(next, Add(prior, Deg(180))) THEN Eq(call.out, Sub(next, Deg(360)))
                   ELSE IF Lt(next, Sub(prior, Deg(180))) THEN Eq(call.out, Add(next, Deg(360)))
                   ELSE Eq(call.out, next)

C13_NextTakenAcrossNorth ==
    /\ call.fn = "smoothValue"
    /\ call.args = <<Deg(10), Deg(350), Smoothing(0, 1)>>
    /\ call.out = Deg(-10)

\* prior + (1 - smoothing) * d
Towards(prior, d, smoothing) ==
    Add(prior, Mul(d, smoothing.d - smoothing.n, smoothing.d))

\* the differences congruent to next - prior modulo 360
Turns(prior, next) ==
    {Add(Sub(next, prior), Deg(360 * t)) : t \in -3 .. 3}

\* a and b are the same but for the rounding of a few operations
MaxRounding == 3

Near(a, b) ==
    /\ a.v = b.v
    /\ a.e - b.e <= MaxRounding * UlpUnits
    /\ b.e - a.e <= MaxRounding * UlpUnits

\* C14 as stated: for every prior, next and smoothing the result is
\* prior + (1 - smoothing) * d (as near as doubles compute it) for a d
\* congruent to next - prior modulo 360 with |d| <= 180.
C14_ShortWayAlways ==
    call.fn = "smoothValue" =>
        \E d \in Turns(call.args[1], call.args[2]) :
            /\ ~Gt(Abs(d), Deg(180))
            /\ Near(call.out, Towards(call.args[1], d, call.args[3]))

\* C14 as amended: the result is prior + (1 - smoothing) * d (as near as
\* doubles compute it) where d is
\* next - prior itself or one turn off it; |d| <= 180 whenever next lies within
\* 540 of prior; smoothValue(350, 10, 0.2) = 366 and smoothValue(10, 350, 0.2)
\* = -6.
C14_ShortWayWithinOneTurn ==
    call.fn = "smoothValue" =>
        LET prior == call.args[1]
            next == call.args[2]
            diff == Sub(next, prior)
        IN  /\ \E d \in {diff, Sub(diff, Deg(360)), Add(diff, Deg(360))} :
                   /\ Near(call.out, Towards(prior, d, call.args[3]))
                   /\ ~Gt(Abs(diff), Deg(540)) => ~Gt(Abs(d), Deg(180))
            /\ call.args = <<Deg(350), Deg(10), Smoothing(1, 5)>> => call.out = Deg(366)
            /\ call.args = <<Deg(10), Deg(350), Smoothing(1, 5)>> => call.out = Deg(-6)

C14_BackAcrossNorth ==
    /\ call.fn = "smoothValue"
    /\ call.args = <<Deg(10), Deg(350), Smoothing(1, 5)>>
    /\ call.out = Deg(-6)

Distance(tracked, next) ==
    Abs(headingDifference(tracked.heading, next.heading))

\* C17 as stated: feeding the same next orientation again never increases
\* the heading's distance to next.heading, and a 180 degree flip fed over and
\* over ends within 1 degree of the flipped heading.
C17_DistanceNeverIncreases ==
    (call.fn = "track" /\ call.steps > 0) =>
        /\ ~Gt(Distance(call.orientation, call.next), Distance(call.previous, call.next))
        /\ call.run = GridSteps => Lt(Distance(call.orientation, call.next), Deg(1))

\* C17 as amended: each step leaves at most a fifth of the distance, give or
\* take the rounding of the step, so that the distance increases by no more
\* than that rounding and the heading comes to within it of next.heading; a
\* 180 degree flip fed over and over ends within 1 degree of the flipped
\* heading.
C17_DistanceShrinksUpToRounding ==
    (call.fn = "track" /\ call.steps > 0) =>
        /\ ~Gt(Mul(Distance(call.orientation, call.next), 5, 1),
               Add(Distance(call.previous, call.next), DegUlp(0, 5 * MaxRounding)))
        /\ call.run = GridSteps => Lt(Distance(call.orientation, call.next), Deg(1))

C17_FlipTakesOver ==
    /\ call.fn = "track"
    /\ call.next = Orient(Deg(270), Deg(50), Deg(0))
    /\ call.run = GridSteps
    /\ call.orientation.heading = Round(270 * Scale - 180, 0, FALSE)

\* what handleBetaChange leaves alone: the Orientation, the smoothing anchor
\* and the calibration state
besideGain == <<orientation, priorOrientation, headingOffset, lastCalibrationTime,
                calibrationInProgress, isCalibrated, calibrationCalls>>

\* C18: when a handleBetaChange(b) call completes, the filter is a freshly
\* constructed one with gain b and the fixed sample interval and the failure
\* counter is 0; neither the start of the call nor its completion changes
\* the Orientation, the smoothing anchor or the calibration state.
C18_GainChangeReinitialises ==
    [][/\ Len(betaCalls') > Len(betaCalls) =>
              UNCHANGED <<besideGain, madgwick, ahrsFailureCount>>
       /\ Len(betaCalls') < Len(betaCalls) =>
              /\ \E i \in 1 .. Len(betaCalls) :
                     /\ betaCalls' = RemoveAt(betaCalls, i)
                     /\ madgwick' = [sampleInterval |-> AHRS_SAMPLE_INTERVAL,
                                     beta |-> betaCalls[i], q |-> 0]
              /\ ahrsFailureCount' = 0
              /\ UNCHANGED besideGain]_vars

\* a gain change has completed on a filter that had run, with an
\* Orientation, a smoothing anchor and a calibration in place
C18_GainChangedInFlight ==
    /\ ev = "gain"
    /\ madgwick = [sampleInterval |-> AHRS_SAMPLE_INTERVAL, beta |-> 20, q |-> 0]
    /\ priorOrientation # Null
    /\ isCalibrated

\* a finite gain within [0.01, 0.30]
InRange(d) ==
    /\ IsFinite(d)
    /\ ~DecLt(d, Decimal(FALSE, 1, -2))
    /\ ~DecLt(Decimal(FALSE, 3, -1), d)

\* C19: loadBeta returns a gain within [0.01, 0.30]: the number the stored
\* string parses to if that is finite and within the range, and 0.1 if
\* nothing is stored, if the string does not parse, if the number is out of
\* range and if the read fails; it does not throw.
C19_LoadedBetaInRange ==
    call.fn = "loadBeta" =>
        /\ InRange(call.out)
        /\ call.out = IF /\ ~call.args[2]
                         /\ call.args[1] # Null
                         /\ InRange(parseFloat(call.args[1]))
                      THEN parseFloat(call.args[1])
                      ELSE Decimal(FALSE, 1, -1)

\* a stored number just above the range was turned down for the default
C19_OutOfRangeTurnedDown ==
    /\ call.fn = "loadBeta"
    /\ call.args = <<Str(<<"0", ".", "3", "0", "1">>), FALSE>>
    /\ call.out = Decimal(FALSE, 1, -1)

\* b clamped to [0.01, 0.30]
Clamped(b) ==
    IF DecLt(b, Decimal(FALSE, 1, -2)) THEN Decimal(FALSE, 1, -2)
    ELSE IF DecLt(Decimal(FALSE, 3, -1), b) THEN Decimal(FALSE, 3, -1)
    ELSE b

\* C20: a loadBeta that follows a saveBeta(b) of a finite b returns b
\* clamped to [0.01, 0.30], storage permitting; a saveBeta of a non-finite b
\* and one whose write fails leave the stored item as it was, and saveBeta
\* settles without throwing.
C20_SavedBetaReadBack ==
    /\ call.fn = "saveBeta" =>
           /\ call.out = Undefined
           /\ (IsFinite(call.args[1]) /\ ~call.args[3]) \/ storage = call.args[2]
    /\ (/\ call.fn = "loadBeta"
        /\ call.after # <<>>
        /\ IsFinite(call.after[1])
        /\ ~call.after[3]
        /\ ~call.args[2]) =>
           call.out = Clamped(call.after[1])

\* a gain above the range was saved over a stored 0.2 and read back as 0.3
C20_ClampedOnTheWayIn ==
    /\ call.fn = "loadBeta"
    /\ call.after = <<Decimal(FALSE, 31, -2), Str(<<"0", ".", "2">>), FALSE>>
    /\ call.args = <<Str(<<"0", ".", "3">>), FALSE>>
    /\ call.out = Decimal(FALSE, 3, -1)

\* C21: clampPitch(p) is min(90, max(-90, p)): within [-90, 90] always, p
\* itself for p within [-90, 90], the ends included, and the nearer end for
\* p outside, however far (180 gives 90, -180 gives -90).
C21_PitchClamped ==
    call.fn = "clampPitch" =>
        LET p == call.args[1]
        IN  /\ IsFinite(call.out)
            /\ ~Below(call.out, Deg(-90)) /\ ~Below(Deg(90), call.out)
            /\ call.out = IF Below(Deg(90), p) THEN Deg(90)
                          ELSE IF Below(p, Deg(-90)) THEN Deg(-90)
                          ELSE p

\* a pitch of -180 degrees came out as -90
C21_NoWrapAround ==
    /\ call.fn = "clampPitch"
    /\ call.args = <<Deg(-180)>>
    /\ call.out = Deg(-90)

\* C22: isValidSensorReading(r) is false for no reading and for a reading
\* with a NaN or infinite component, and true for every other reading.
C22_ValidIffAllFinite ==
    call.fn = "isValidSensorReading" =>
        LET r == call.args[1]
        IN  call.out = (/\ r # Null
                        /\ \A c \in {r.x, r.y, r.z} : c \notin {NaN, PosInf, NegInf})

\* a reading whose z alone is not finite was turned down
C22_BadZTurnedDown ==
    /\ call.fn = "isValidSensorReading"
    /\ call.args = <<Reading(Deg(0), Deg(0), NegInf)>>
    /\ call.out = FALSE

\* what a dropped frame leaves alone: the Orientation, the smoothing anchor,
\* the solar position and the calibration state, attempts in flight included
besideFrame == <<orientation, priorOrientation, solarPosition, headingOffset,
                 lastCalibrationTime, calibrationInProgress, isCalibrated,
                 calibrationCalls>>

\* C23: a cycle in which the filter yields a non-finite Euler angle counts
\* one failure (the count that reaches the threshold being zeroed by the
\* reset) and drops the frame: the Orientation, the smoothing anchor, the
\* solar position and the calibration state stay as they were and no
\* calibration attempt is started.
C23_BadFrameDropped ==
    [][(AllFinite' /\ Cycle(NonFiniteEulers)) =>
           /\ ahrsFailureCount' = IF ahrsFailureCount + 1 = MAX_AHRS_FAILURES
                                  THEN 0 ELSE ahrsFailureCount + 1
           /\ UNCHANGED besideFrame
      ]_vars

\* a frame was dropped with an Orientation and a calibration in place and a
\* failure counted before
C23_SecondFailureWhileRunning ==
    /\ ev = "failed"
    /\ ahrsFailureCount = 2
    /\ priorOrientation # Null
    /\ isCalibrated

\* C24: between cycles the failure counter is within 0..9 and is the number
\* of non-finite filter outputs since the last finite one, the last reset or
\* the last gain change (failRun); a finite output zeroes it, so that a
\* reset comes only with the tenth failure in a row, and a cycle skipped for
\* an invalid reading leaves it as it was.
C24_CounterCountsTheRun ==
    [][/\ ahrsFailureCount' \in 0 .. (MAX_AHRS_FAILURES - 1)
       /\ ahrsFailureCount' = failRun'
       /\ (AllFinite' /\ Cycle({LevelEuler})) => ahrsFailureCount' = 0
       /\ ev' = "reset" => (ev = "reset" \/ failRun = MAX_AHRS_FAILURES - 1)
       /\ (AllDelivered' /\ ~AllFinite' /\ Cycle(AnyEuler)) =>
              ahrsFailureCount' = ahrsFailureCount
      ]_vars

\* a cycle was skipped for an invalid reading one failure short of the reset
C24_SkippedAtNine ==
    /\ ev = "skipped"
    /\ ahrsFailureCount = MAX_AHRS_FAILURES - 1
    /\ failRun = MAX_AHRS_FAILURES - 1

\* what the filter's output alone gives: the angles in degrees, the heading
\* with the stored offset applied
Unsmoothed(euler) ==
    [heading |-> normalizeHeading(Add(ToDegrees(euler.heading), headingOffset)),
     pitch |-> ToDegrees(euler.pitch),
     roll |-> ToDegrees(euler.roll)]

\* C25 as stated: the cycle that resets the filter changes neither the
\* Orientation nor the smoothing anchor, and the Orientation that follows the
\* reset holds nothing computed before it: it is what the new filter's
\* output alone gives.
C25_NothingCarriedOver ==
    [][/\ (AllFinite' /\ Cycle(NonFiniteEulers)) =>
              UNCHANGED <<orientation, priorOrientation>>
       /\ (ev = "reset" /\ AllFinite' /\ Cycle({LevelEuler})) =>
              orientation' = Unsmoothed(LevelEuler)
      ]_vars

\* C25 as amended: the cycle that resets the filter changes neither the
\* Orientation nor the smoothing anchor and its own output goes nowhere; the
\* Orientation that follows the reset is what the new filter's output gives,
\* smoothed against the anchor kept from before the reset if there is one.
C25_AnchorCarriedOver ==
    [][/\ (AllFinite' /\ Cycle(NonFiniteEulers)) =>
              UNCHANGED <<orientation, priorOrientation>>
       /\ (ev = "reset" /\ AllFinite' /\ Cycle({LevelEuler})) =>
              /\ orientation' = IF priorOrientation = Null THEN Unsmoothed(LevelEuler)
                                ELSE smoothOrientation(priorOrientation,
                                                       Unsmoothed(LevelEuler),
                                                       Smoothing(1, 5))
              /\ priorOrientation' = orientation'
      ]_vars

\* the filter was reset with a smoothing anchor and a calibration in place
C25_ResetWithAnchor ==
    /\ ev = "reset"
    /\ priorOrientation # Null
    /\ headingOffset # Deg(0)
    /\ madgwick.q = 0

\* C26: the reset at the failure threshold puts a filter in its initial
\* state in place of the failed one, built with the fixed sample interval
\* and with the gain set most recently, whatever gain the failed filter had,
\* and zeroes the failure counter.
C26_ResetTakesCurrentGain ==
    [][(failRun = MAX_AHRS_FAILURES - 1 /\ AllFinite' /\ Cycle(NonFiniteEulers)) =>
           /\ madgwick' = [sampleInterval |-> AHRS_SAMPLE_INTERVAL,
                           beta |-> ahrsBeta, q |-> 0]
           /\ ahrsFailureCount' = 0
      ]_vars

\* a filter built with the default gain was reset while a gain change was
\* awaiting its save: the new filter has the gain just picked
C26_ResetDuringGainChange ==
    /\ ev = "reset"
    /\ betaCalls = <<20>>
    /\ madgwick = [sampleInterval |-> AHRS_SAMPLE_INTERVAL, beta |-> 20, q |-> 0]
    /\ ahrsFailureCount = 0

\* a sensor callback on good readings in which the filter yields euler
GoodCycle(euler) ==
    Listeners({GoodReading}, {GoodReading}, {GoodReading}, {euler})

\* whether a cycle started a calibration attempt
AttemptStarted == Len(calibrationCalls') = Len(calibrationCalls) + 1

\* C27 as stated: a successful cycle with no attempt in flight starts one
\* exactly when no calibration has succeeded yet, or when more than 30 s have
\* passed since the last successful one and |pitch| is below 15 degrees.
C27_TriggerWhenIntervalExceeded ==
    [][\A euler \in CalibrationEulers :
           (~calibrationInProgress /\ AllDelivered' /\ GoodCycle(euler)) =>
               (AttemptStarted <=>
                    \/ ~isCalibrated
                    \/ /\ now - lastCalibrationTime > 30 * 1000
                       /\ Lt(Abs(ToDegrees(euler.pitch)), Deg(15)))
      ]_vars

\* C27 amended: a successful cycle with no attempt in flight starts one
\* exactly when no calibration has succeeded yet, or when at least 30 s have
\* passed since the last successful one and |pitch| is below 15 degrees; at
\* |pitch| >= 15 or before 30 s are up a calibrated pipeline starts none.
C27_TriggerWhenIntervalReached ==
    [][\A euler \in CalibrationEulers :
           (~calibrationInProgress /\ AllDelivered' /\ GoodCycle(euler)) =>
               (AttemptStarted <=>
                    \/ ~isCalibrated
                    \/ /\ now - lastCalibrationTime >= 30 * 1000
                       /\ Lt(Abs(ToDegrees(euler.pitch)), Deg(15)))
      ]_vars

\* a recalibration that started exactly 30 s after the last one, level
C27_RecalibratedOnTheDot ==
    /\ isCalibrated
    /\ calibrationInProgress
    /\ ev = "updated"
    /\ now - lastCalibrationTime = 30 * 1000
    /\ calibrationCalls[1].pitch = Deg(0)

\* the references an attempt can be given and use
UsableReferences == {response \in CalibrationResponses : response # Null}

\* the reference heading as the attempt corrects it for the pitch
Corrected(attempt, reference) ==
    IF Gt(Abs(attempt.pitch), Deg(45))
    THEN Rem(Add(reference.trueHeading, Deg(180)), 360)
    ELSE reference.trueHeading

\* C28: the stored heading offset is 0 until a calibration has succeeded;
\* every successful calibration stores an offset in [-180, 180] that is
\* congruent modulo 360 to the corrected reference heading less the filter
\* heading the attempt was given, so that normalizeHeading of that filter
\* heading plus the offset is the corrected reference heading in [0, 360).
C28_OffsetIsWrappedDifference ==
    [][/\ ~isCalibrated => headingOffset = Deg(0)
       /\ \A i \in 1 .. Len(calibrationCalls), reference \in UsableReferences :
              performCalibrationSettle(i, reference) =>
                  LET attempt == calibrationCalls[i]
                      corrected == Corrected(attempt, reference)
                  IN  /\ InDegrees(headingOffset', -180, 180)
                      /\ Congruent360(headingOffset',
                                      Sub(corrected, attempt.ahrsHeading))
                      /\ normalizeHeading(Add(attempt.ahrsHeading, headingOffset'))
                             = normalizeHeading(corrected)
      ]_vars

\* a reference of 190 turned round to 10 for a filter heading of 350: the
\* difference of -340 is stored as 20
C28_StoredAcrossNorth ==
    /\ ev = "stored"
    /\ isCalibrated
    /\ headingOffset = Deg(20)

\* the reference an offset stands for, given the filter heading it was
\* computed against
ReferenceUsed(attempt, offset) ==
    normalizeHeading(Add(attempt.ahrsHeading, offset))

\* C29: a calibration attempt uses (reference + 180) mod 360 in place of the
\* reference exactly when the pitch it was given is more than 45 degrees up
\* or down; at 45 degrees or less it uses the reference as it is.
C29_FlipBeyond45 ==
    [][\A i \in 1 .. Len(calibrationCalls), reference \in UsableReferences :
           performCalibrationSettle(i, reference) =>
               LET attempt == calibrationCalls[i]
                   used == ReferenceUsed(attempt, headingOffset')
                   flipped == Rem(Add(reference.trueHeading, Deg(180)), 360)
                   steep == \/ Gt(attempt.pitch, Deg(45))
                            \/ Lt(attempt.pitch, Deg(-45))
               IN  /\ steep => used = flipped
                   /\ ~steep => used = reference.trueHeading
                   /\ (used = flipped) <=> steep
      ]_vars

\* a reference of 350 taken at a pitch of -50 degrees and a filter heading
\* of 350: turned round to 170, stored as an offset of -180
C29_FlippedLookingDown ==
    /\ ev = "stored"
    /\ headingOffset = Deg(-180)
    /\ orientation.pitch = Deg(-50)

\* C30: the stored offset acts only through normalizeHeading(filterHeading +
\* offset), applied in every successful cycle to the filter's heading before
\* smoothing, with a result in [0, 360) congruent to the sum modulo 360; and
\* a calibration that completes leaves the filter, the failure counter, the
\* smoothing anchor and the current Orientation as they are.
C30_OffsetAppliedBeforeSmoothing ==
    [][/\ \A euler \in FiniteEulers \cup CalibrationEulers :
              (AllDelivered' /\ GoodCycle(euler)) =>
                  LET sum == Add(ToDegrees(euler.heading), headingOffset)
                      applied == normalizeHeading(sum)
                      next == [heading |-> applied,
                               pitch |-> ToDegrees(euler.pitch),
                               roll |-> ToDegrees(euler.roll)]
                  IN  /\ InDegrees(applied, 0, 360)
                      /\ Lt(applied, Deg(360))
                      /\ Congruent360(applied, sum)
                      /\ orientation' =
                             IF priorOrientation = Null THEN next
                             ELSE smoothOrientation(priorOrientation, next,
                                                    Smoothing(1, 5))
       /\ Calibrations(HeadingResponses \cup CalibrationResponses) =>
              UNCHANGED <<madgwick, ahrsFailureCount, priorOrientation, orientation>>
      ]_vars

\* a step that replaces the filter: the failure threshold or a gain change
FilterReplaced ==
    \/ ev' = "reset" /\ Cycle(NonFiniteEulers)
    \/ \E i \in 1 .. Len(betaCalls) : handleBetaChangeSettle(i)

\* C31: replacing the filter, by the failure threshold or by a gain change,
\* leaves an attempt in flight as it is, and when its reference arrives
\* finite the offset computed from the heading and pitch the attempt
\* captured at its start is stored together with the time of completion,
\* whatever has become of the filter in between.
C31_AttemptOutlivesReset ==
    [][/\ FilterReplaced => UNCHANGED <<calibrationInProgress, calibrationCalls>>
       /\ \A i \in 1 .. Len(calibrationCalls) :
              performCalibrationSettle(i, Heading(Deg(20))) =>
                  LET attempt == calibrationCalls[i]
                  IN  /\ normalizeHeading(Add(attempt.ahrsHeading, headingOffset'))
                             = Corrected(attempt, Heading(Deg(20)))
                      /\ InDegrees(headingOffset', -180, 180)
                      /\ lastCalibrationTime' = now
                      /\ isCalibrated'
      ]_vars

\* the offset of an attempt stored on a filter that the failure threshold
\* replaced after the attempt began and that has not been updated since
C31_StoredAfterReset ==
    /\ ev = "stored"
    /\ isCalibrated
    /\ headingOffset = Deg(10)
    /\ madgwick = NewMadgwick(DEFAULT_BETA)
    /\ ahrsFailureCount = 0

\* C32: the stored heading offset and the time of the last calibration
\* change only in the step in which a calibration attempt completes with a
\* finite reference heading; sensor callbacks, whether they wait, skip, fail,
\* reset the filter or produce an Orientation, and gain changes leave both
\* as they are.
C32_OnlyCalibrationWritesOffset ==
    [][/\ (headingOffset' # headingOffset
               \/ lastCalibrationTime' # lastCalibrationTime) =>
              /\ ev' = "stored"
              /\ \E i \in 1 .. Len(calibrationCalls) :
                     performCalibrationSettle(i, Heading(Deg(20)))
       /\ (ev' \in {"waiting", "skipped", "failed", "reset", "updated"}
               /\ <<gyroData, accelData, magData>>' # <<gyroData, accelData, magData>>) =>
              UNCHANGED <<headingOffset, lastCalibrationTime>>
       /\ (betaCalls' # betaCalls) => UNCHANGED <<headingOffset, lastCalibrationTime>>
      ]_vars

\* a calibrated pipeline right after a gain change replaced its filter
C32_GainChangedAfterCalibration ==
    /\ ev = "gain"
    /\ isCalibrated
    /\ headingOffset = Deg(10)
    /\ lastCalibrationTime = TickMs

\* the minutes of the day, counted from the start instant
Minutes == 0 .. (24 * 60 - 1)

\* the largest element of a non-empty set of minutes
Latest(ms) == CHOOSE m \in ms : \A other \in ms : other <= m

\* what bucket b has to hold for a sun on track, sampled from start on
Expected(track, start, b) ==
    LET ms == {m \in Minutes : FloorQuarter(SunAt(track, m).azimuth) = b}
    IN  IF ms = {} THEN Null
        ELSE [time |-> start + Latest(ms) * 60000,
              elevation |-> RoundHalf(SunAt(track, Latest(ms)).elevation)]

\* C33: the table that generateSolarTable returns holds in every bucket b of
\* 0 .. 359 the time and the rounded elevation of the latest of the 1440
\* minutes whose azimuth floors to b, and null exactly when there is no such
\* minute.
C33_LastWriterWins ==
    [][(solarTable = Null /\ solarTable' # Null) =>
           \E location \in Locations :
               /\ Mount(location)
               /\ \A b \in 0 .. 359 :
                      ArrayGet(solarTable', b) = Expected(location.track, now, b)
      ]_vars

\* the table of a sun that turns back at noon: bucket 100, passed in minutes
\* 160 to 163 and again in minutes 1276 to 1279, holds minute 1279, and
\* bucket 0, never passed, is unset
C33_BucketPassedTwice ==
    /\ solarTable # Null
    /\ ArrayGet(solarTable, 100) # Null
    /\ ArrayGet(solarTable, 100).time = TickMs + 1279 * 60000
    /\ ArrayGet(solarTable, 0) = Null

\* the rolls that up to n further successful cycles can take the given ones to
RECURSIVE RollsAfter(_, _)
RollsAfter(rolls, n) ==
    IF n = 0 THEN rolls
    ELSE RollsAfter(rolls \cup {smoothValue(r, next, Smoothing(1, 5)) :
                                    r \in rolls, next \in RollInputs},
                    n - 1)

\* C34 as stated, for the bound 540: with every filter roll in [-180, 180]
\* there is a sequence of successful cycles after which the |roll| of the
\* Orientation exceeds the bound.
C34_RollExceedsEveryBound ==
    (call.fn = "track" /\ call.steps = 0) =>
        \E r \in RollsAfter({call.orientation.roll}, GridSteps) :
            Gt(Abs(r), Deg(540))

\* C34 amended: roll, smoothed with smoothValue and neither wrapped nor
\* clamped, leaves [-180, 180], but smoothValue shifts its input by one turn
\* at most, so with every filter roll in [-180, 180] the |roll| of the
\* Orientation never exceeds 540.
C34_RollWithin540 ==
    call.fn = "track" => InDegrees(call.orientation.roll, -540, 540)

\* from a first roll of 180, the filter rolls -10, 130, 180 and 180 take the
\* Orientation's roll to 316, 455.2, 523.04 and 536.608
C34_RollPast536 ==
    /\ call.fn = "track"
    /\ call.steps = 4
    /\ call.next.roll = Deg(180)
    /\ call.orientation.roll = Round(335380, 0, FALSE)

C36_SettlingClearsFlag ==
    [][/\ \A i \in 1 .. Len(calibrationCalls), response \in HeadingResponses :
              performCalibrationSettle(i, response) =>
                  /\ ~calibrationInProgress'
                  /\ calibrationCalls' = <<>>
       /\ \A euler \in FiniteEulers :
              (ev = "abandoned" /\ ~isCalibrated /\ AllDelivered' /\ GoodCycle(euler)) =>
                  /\ calibrationInProgress'
                  /\ AttemptStarted
      ]_vars

\* the first attempt has failed and left the flag clear
C36_ClearAfterFailedBootstrap ==
    /\ ev = "abandoned"
    /\ ~isCalibrated
    /\ priorOrientation # Null
    /\ ~calibrationInProgress
    /\ calibrationCalls = <<>>

\* the Orientation a successful cycle makes of the filter's output euler when
\* it applies the offset given
OrientationWith(euler, offset) ==
    LET next == [heading |-> normalizeHeading(Add(ToDegrees(euler.heading), offset)),
                 pitch |-> ToDegrees(euler.pitch),
                 roll |-> ToDegrees(euler.roll)]
    IN  IF priorOrientation = Null THEN next
        ELSE smoothOrientation(priorOrientation, next, Smoothing(1, 5))

\* C37: a cycle that starts a calibration attempt applies the offset stored
\* before the attempt, 0 on bootstrap, leaves that offset stored and the
\* attempt waiting for its reference; its Orientation is not the one the
\* attempt's own offset would give, unless the two offsets are a whole turn
\* apart; and the offset an attempt stores is the one the next successful
\* cycle applies.
C37_TriggeringCycleUsesOldOffset ==
    [][\A euler \in CalibrationEulers :
           /\ (AllDelivered' /\ GoodCycle(euler) /\ AttemptStarted) =>
                  /\ orientation' = OrientationWith(euler, headingOffset)
                  /\ headingOffset' = headingOffset
                  /\ ~isCalibrated => headingOffset = Deg(0)
                  /\ calibrationInProgress'
                  /\ \A reference \in UsableReferences :
                         LET attempt == calibrationCalls'[Len(calibrationCalls')]
                             offset == WrapUp(WrapDown(Sub(Corrected(attempt, reference),
                                                           attempt.ahrsHeading)))
                         IN  ~Congruent360(offset, headingOffset) =>
                                 orientation' # OrientationWith(euler, offset)
           /\ (ev = "stored" /\ AllDelivered' /\ GoodCycle(euler)) =>
                  orientation' = OrientationWith(euler, headingOffset)
      ]_vars

\* a recalibration started by a cycle that applied the offset of the
\* calibration before
C37_RecalibrationUnderOldOffset ==
    /\ ev = "updated"
    /\ calibrationInProgress
    /\ isCalibrated
    /\ headingOffset = Deg(-20)
    /\ smoothed >= 1

\* C38: whenever neither the load on mount nor a gain change awaits its
\* storage request, the gain of the live filter is the configured gain, the
\* one a reset after failed updates would give the filter.
C38_LiveGainIsConfigured ==
    (betaLoad.k # "awaiting" /\ betaCalls = <<>>) => madgwick.beta = ahrsBeta

==============================================================================
